---- MODULE Spec2Model ----
(***************************************************************************)
(* Datarails Finance OS client: token lifecycle (auth.py), API client      *)
(* (client.py) and the paginated fetch routines (scripts/).                *)
(*                                                                         *)
(* Python values are encoded as records so that TLC can compare them:      *)
(*   a string field of the session is a STRING, with NoneStr for None;     *)
(*   a token is a record [val, segs, json, exp]: val says whether it is    *)
(*   None, a missing dict key, the empty string or a non-empty string;     *)
(*   segs is the number of '.'-separated parts, json what the middle part  *)
(*   decodes to, exp the value of its "exp" field.                         *)
(***************************************************************************)
EXTENDS Integers, Sequences, FiniteSets, TLC

VARIABLES
    auth,          \* the auth handler wrapped by the client (BrowserAuth or EnvAuth)
    now,           \* time.time()
    schema_cache,  \* DatarailsClient._schema_cache (the table ids it holds)
    last,          \* the last completed call: its name, result and network requests
    routine,       \* the paginated fetch that runs: "workbook", "extractor" or "none"
    pc,            \* where it is: "idle", "loop", "retry", "returned", "raised"
    max_rows,      \* its max_rows argument
    offset,        \* its offset
    retry_count,   \* its retry_count
    all_data,      \* its all_data: the pages it holds, each [off, n] the n rows
                   \* of the table that follow row off
    dataset,       \* the number of rows of the table the server holds
    hist,          \* what the server saw of the run (see HistInit)
    env,           \* BrowserAuth.env of the handler
    keyring,       \* the keyring of the system: the slot of each environment
    fallback_file, \* ~/.datarails-auth.json
    backend,       \* what the keyring backend does with a call (see Backends)
    pending,       \* the threads of the keyring wrappers that still run
    environ,       \* os.environ: the DATARAILS_ variables of the process (see Environ)
    config_file,   \* config/environments.json and its directory (see ConfigFile)
    client,        \* _client of server.py: "None", or "DatarailsClient" for a client that wraps auth
    diag,          \* the full pagination test of the diagnostic (see DiagState)
    fan            \* the fan-out of fetch_all_data (see FanState)

authVars == <<auth, now, schema_cache, last>>
fetchVars == <<routine, pc, max_rows, offset, retry_count, all_data, dataset, hist>>
storeVars == <<env, keyring, fallback_file, backend, pending>>
processVars == <<environ, config_file, client, diag>>
vars == <<auth, now, schema_cache, last, storeVars, fan, processVars, routine, pc, max_rows, offset, retry_count,
          all_data, dataset, hist, env, keyring, fallback_file, backend, pending, fan, processVars>>

----------------------------------------------------------------------------
(* Bounds of the model *)

MaxNow == 3
\* the counters of requests kept in hist stop counting here
MaxCount == 8
\* the number of fields passed to, or found by, a profile operation
MaxFields == 2
\* most threads of the keyring wrappers left running at a time
MaxPending == 1

----------------------------------------------------------------------------
(* Program constants *)

REFRESH_BUFFER_SECONDS == 30
PAGE_SIZE == 500
MAX_RETRIES == 3
REAUTH_EVERY == 20000
DEFAULT_MAX_ROWS == 100000

----------------------------------------------------------------------------
(* Python values *)

NoneStr == "None"

Range(seq) == {seq[i] : i \in DOMAIN seq}

\* bool(s) of a str-or-None value
Truthy(s) == s # NoneStr /\ s # ""

NoneTok == [val |-> "none", segs |-> 0, json |-> "none", exp |-> 0]
MissingTok == [val |-> "missing", segs |-> 0, json |-> "none", exp |-> 0]
EmptyTok == [val |-> "empty", segs |-> 1, json |-> "none", exp |-> 0]

\* a non-empty token string with segs parts whose middle part decodes to
\* json: "bad" (not base64 / not JSON), "noexp" (JSON without exp), "exp"
Jwt(segs, json, exp) == [val |-> "str", segs |-> segs, json |-> json, exp |-> exp]

\* bool(tok) of a token-or-None value
TokTruthy(tok) == tok.val = "str"


----------------------------------------------------------------------------
(* Inputs of the model: what the user passes and what the servers answer *)

SessionIds == {"s1", "s2"}
CsrfTokens == {"c1"}

\* the "exp" claims of the tokens the server issues
ExpClaims == {REFRESH_BUFFER_SECONDS + 1, REFRESH_BUFFER_SECONDS + 2}

\* the token strings the server issues
IssuedTokens == {Jwt(3, "exp", e) : e \in ExpClaims} \cup {Jwt(3, "noexp", 0), Jwt(2, "bad", 0)}

\* the value of a field of the token endpoints' JSON body
BodyTokens == IssuedTokens \cup {MissingTok}

NoBody == [json |-> FALSE, access |-> MissingTok, refresh |-> MissingTok]

\* an answer of a token endpoint: the request fails (connection error,
\* timeout), or a status code comes back with a body
TokenFailures ==
    {[kind |-> k, code |-> 0, body |-> NoBody] : k \in {"connect_error", "timeout"}}
    \cup {[kind |-> "status", code |-> c, body |-> NoBody] : c \in {401, 500}}
    \cup {[kind |-> "status", code |-> 200, body |-> NoBody]}
    \cup {[kind |-> "status", code |-> 200,
           body |-> [json |-> TRUE, access |-> MissingTok, refresh |-> r]] : r \in BodyTokens}

TokenAnswers ==
    TokenFailures
    \cup {[kind |-> "status", code |-> 200,
           body |-> [json |-> TRUE, access |-> a, refresh |-> r]] :
             a \in IssuedTokens, r \in BodyTokens}

----------------------------------------------------------------------------
(* auth.py: BrowserAuth *)

\* BrowserAuth.__init__ after _load_session: the session as stored, no tokens
BrowserAuth_init(session_id, csrf_token) ==
    [cls |-> "BrowserAuth",
     session_id |-> session_id, csrf_token |-> csrf_token,
     jwt_token |-> NoneTok,
     access_token |-> NoneTok, refresh_token |-> NoneTok,
     access_exp |-> 0, refresh_exp |-> 0]

\* _decode_jwt_exp: [raised, exp]. token.split on None raises before the try;
\* a token that has not three parts, or whose payload does not decode to JSON
\* with a numeric exp, gives 0
decode_jwt_exp(token) ==
    IF token.val \in {"none", "missing"} THEN [raised |-> TRUE, exp |-> 0]
    ELSE IF token.segs # 3 THEN [raised |-> FALSE, exp |-> 0]
    ELSE IF token.json = "exp" THEN [raised |-> FALSE, exp |-> token.exp]
    ELSE [raised |-> FALSE, exp |-> 0]

\* _needs_refresh reading the expiry of the refresh token
needs_refresh_wrong_expiry(a, t) ==
    IF ~TokTruthy(a.access_token) THEN TRUE
    ELSE t > a.refresh_exp - REFRESH_BUFFER_SECONDS

needs_refresh(a, t) ==
    IF ~TokTruthy(a.access_token) THEN TRUE
    ELSE t > a.access_exp - REFRESH_BUFFER_SECONDS

\* _refresh_token_valid without the look at the expiry
refresh_token_valid_no_expiry(a, t) == TokTruthy(a.refresh_token)

refresh_token_valid(a, t) ==
    IF ~TokTruthy(a.refresh_token) THEN FALSE
    ELSE t < a.refresh_exp - REFRESH_BUFFER_SECONDS

has_session(a) == Truthy(a.session_id) /\ Truthy(a.csrf_token)

\* is_authenticated asking for an access token as well
is_authenticated_with_token(a) == has_session(a) /\ TokTruthy(a.access_token)

is_authenticated(a) == has_session(a)

\* what a token endpoint answered, as the server sees it: a failed request,
\* a status other than 200, a 200 without a JSON body, a 200 whose JSON
\* lacks one of the fields the caller reads, or a 200 with all of them
AnswerKind(ans, fields) ==
    IF ans.kind # "status" THEN ans.kind
    ELSE IF ans.code # 200 THEN "non200"
    ELSE IF ~ans.body.json THEN "unparsable"
    ELSE IF \E f \in fields : ans.body[f].val = "missing" THEN "incomplete"
    ELSE "ok"

\* one call of a method of the handler: the handler after it, what it
\* returned (ret), whether it raised, whether it sent its request and what
\* the endpoint answered ("none" when nothing was sent)
Call(fn, a, ret, raised, sent, answer) ==
    [fn |-> fn, auth |-> a, ret |-> ret, raised |-> raised, sent |-> sent,
     answer |-> answer, out |-> ""]

\* the body of the try block of _fetch_token_pair, statement by statement:
\* an exception leaves the assignments made before it in place
fetch_token_pair_try(a, ans) ==
    IF ans.kind # "status" THEN [auth |-> a, out |-> "exception"]
    ELSE IF ans.code # 200 THEN [auth |-> a, out |-> "fallthrough"]
    ELSE IF ~ans.body.json THEN [auth |-> a, out |-> "exception"]
    ELSE IF ans.body.access.val = "missing" THEN [auth |-> a, out |-> "exception"]
    ELSE LET a1 == [a EXCEPT !.access_token = ans.body.access] IN
         IF ans.body.refresh.val = "missing" THEN [auth |-> a1, out |-> "exception"]
         ELSE LET a2 == [a1 EXCEPT !.refresh_token = ans.body.refresh]
                  d1 == decode_jwt_exp(a2.access_token) IN
              IF d1.raised THEN [auth |-> a2, out |-> "exception"]
              ELSE LET a3 == [a2 EXCEPT !.access_exp = d1.exp]
                       d2 == decode_jwt_exp(a3.refresh_token) IN
                   IF d2.raised THEN [auth |-> a3, out |-> "exception"]
                   ELSE [auth |-> [a3 EXCEPT !.refresh_exp = d2.exp], out |-> "true"]

\* fetch_token_pair with the except clause of its try block left out
fetch_token_pair_unguarded(a, ans) ==
    IF ~has_session(a) THEN Call("fetch_token_pair", a, FALSE, FALSE, FALSE, "none")
    ELSE LET r == fetch_token_pair_try(a, ans) IN
         Call("fetch_token_pair", r.auth, r.out = "true", r.out = "exception", TRUE,
              AnswerKind(ans, {"access", "refresh"}))

fetch_token_pair(a, ans) ==
    IF ~has_session(a) THEN Call("fetch_token_pair", a, FALSE, FALSE, FALSE, "none")
    ELSE LET r == fetch_token_pair_try(a, ans) IN
         Call("fetch_token_pair", r.auth, r.out = "true", FALSE, TRUE,
              AnswerKind(ans, {"access", "refresh"}))

refresh_access_token_try(a, ans) ==
    IF ans.kind # "status" THEN [auth |-> a, out |-> "exception"]
    ELSE IF ans.code # 200 THEN [auth |-> a, out |-> "fallthrough"]
    ELSE IF ~ans.body.json THEN [auth |-> a, out |-> "exception"]
    ELSE IF ans.body.access.val = "missing" THEN [auth |-> a, out |-> "exception"]
    ELSE LET a1 == [a EXCEPT !.access_token = ans.body.access]
             d1 == decode_jwt_exp(a1.access_token) IN
         IF d1.raised THEN [auth |-> a1, out |-> "exception"]
         ELSE [auth |-> [a1 EXCEPT !.access_exp = d1.exp], out |-> "true"]

refresh_access_token(a, ans) ==
    IF ~TokTruthy(a.refresh_token) THEN Call("refresh_access_token", a, FALSE, FALSE, FALSE, "none")
    ELSE LET r == refresh_access_token_try(a, ans) IN
         Call("refresh_access_token", r.auth, r.out = "true", FALSE, TRUE,
              AnswerKind(ans, {"access"}))

\* the outcome of ensure_valid_token and of the calls it made, in order
Outcome(a, ret, raised, calls) ==
    [auth |-> a, ret |-> ret, raised |-> raised, calls |-> calls]

Trace(c) ==
    [fn |-> c.fn, ret |-> c.ret, raised |-> c.raised, sent |-> c.sent, answer |-> c.answer,
     out |-> c.out]

\* ensure_valid_token giving up after a failed refresh exchange
BrowserAuth_ensure_valid_token_no_fallback(a, t, refreshAns, fetchAns) ==
    IF ~needs_refresh(a, t) THEN Outcome(a, TRUE, FALSE, <<>>)
    ELSE IF refresh_token_valid(a, t)
         THEN LET r == refresh_access_token(a, refreshAns) IN
              Outcome(r.auth, r.ret, r.raised, <<Trace(r)>>)
         ELSE LET f == fetch_token_pair(a, fetchAns) IN
              Outcome(f.auth, f.ret, f.raised, <<Trace(f)>>)

\* BrowserAuth.ensure_valid_token at time t; refreshAns and fetchAns are what
\* the refresh endpoint and the token endpoint answer if they are asked
BrowserAuth_ensure_valid_token(a, t, refreshAns, fetchAns) ==
    IF ~needs_refresh(a, t) THEN Outcome(a, TRUE, FALSE, <<>>)
    ELSE IF refresh_token_valid(a, t)
         THEN LET r == refresh_access_token(a, refreshAns) IN
              IF r.raised THEN Outcome(r.auth, FALSE, TRUE, <<Trace(r)>>)
              ELSE IF r.ret THEN Outcome(r.auth, TRUE, FALSE, <<Trace(r)>>)
              ELSE LET f == fetch_token_pair(r.auth, fetchAns) IN
                   Outcome(f.auth, f.ret, f.raised, <<Trace(r), Trace(f)>>)
         ELSE LET f == fetch_token_pair(a, fetchAns) IN
              Outcome(f.auth, f.ret, f.raised, <<Trace(f)>>)

\* set_session_cookies keeping the cached tokens
set_session_cookies_keeping_tokens(a, session_id, csrf_token) ==
    [a EXCEPT !.session_id = session_id, !.csrf_token = csrf_token]

set_session_cookies(a, session_id, csrf_token) ==
    [a EXCEPT !.session_id = session_id, !.csrf_token = csrf_token,
              !.access_token = NoneTok, !.refresh_token = NoneTok]

\* clear_session dropping the session and keeping the tokens
clear_session_keeping_tokens(a) ==
    [a EXCEPT !.session_id = NoneStr, !.csrf_token = NoneStr]

clear_session(a) ==
    [a EXCEPT !.session_id = NoneStr, !.csrf_token = NoneStr,
              !.access_token = NoneTok, !.refresh_token = NoneTok]

\* clear_cookies dropping the tokens and keeping the session
clear_cookies_keeping_session(a) ==
    [a EXCEPT !.access_token = NoneTok, !.refresh_token = NoneTok]

clear_cookies(a) == clear_session(a)


----------------------------------------------------------------------------
(* auth.py: EnvAuth *)

\* EnvAuth.__init__: the session and the direct JWT of the process environment
EnvAuth_init(session_id, csrf_token, jwt_token) ==
    [cls |-> "EnvAuth",
     session_id |-> session_id, csrf_token |-> csrf_token,
     jwt_token |-> jwt_token,
     access_token |-> jwt_token, refresh_token |-> NoneTok,
     access_exp |-> 0, refresh_exp |-> 0]

\* the handler after EnvAuth._needs_refresh, which decodes the expiry of a
\* held token whose recorded expiry is 0
EnvAuth_needs_refresh_state(a) ==
    IF TokTruthy(a.access_token) /\ a.access_exp = 0
    THEN [a EXCEPT !.access_exp = decode_jwt_exp(a.access_token).exp]
    ELSE a

EnvAuth_needs_refresh(a, t) ==
    IF ~TokTruthy(a.access_token) THEN TRUE
    ELSE t > EnvAuth_needs_refresh_state(a).access_exp - REFRESH_BUFFER_SECONDS

\* EnvAuth._fetch_token_pair with the except clause of its try block left out
EnvAuth_fetch_token_pair_unguarded(a, ans) ==
    IF ~(Truthy(a.session_id) /\ Truthy(a.csrf_token))
    THEN Call("fetch_token_pair", a, FALSE, FALSE, FALSE, "none")
    ELSE LET r == fetch_token_pair_try(a, ans) IN
         Call("fetch_token_pair", r.auth, r.out = "true", r.out = "exception", TRUE,
              AnswerKind(ans, {"access", "refresh"}))

EnvAuth_fetch_token_pair(a, ans) ==
    IF ~(Truthy(a.session_id) /\ Truthy(a.csrf_token))
    THEN Call("fetch_token_pair", a, FALSE, FALSE, FALSE, "none")
    ELSE LET r == fetch_token_pair_try(a, ans) IN
         Call("fetch_token_pair", r.auth, r.out = "true", FALSE, TRUE,
              AnswerKind(ans, {"access", "refresh"}))

EnvAuth_ensure_valid_token(a, t, fetchAns) ==
    LET a1 == EnvAuth_needs_refresh_state(a) IN
    IF ~EnvAuth_needs_refresh(a, t) THEN Outcome(a1, TRUE, FALSE, <<>>)
    ELSE IF Truthy(a1.session_id) /\ Truthy(a1.csrf_token)
         THEN LET f == EnvAuth_fetch_token_pair(a1, fetchAns) IN
              Outcome(f.auth, f.ret, f.raised, <<Trace(f)>>)
         ELSE Outcome(a1, FALSE, FALSE, <<>>)

is_configured(a) ==
    (Truthy(a.session_id) /\ Truthy(a.csrf_token)) \/ TokTruthy(a.jwt_token)

EnvAuth_is_authenticated(a) == is_configured(a)

----------------------------------------------------------------------------
(* auth.py: the persisted session of BrowserAuth, per environment: the
   keyring slot session_<env> and the entry of ~/.datarails-auth.json *)

Envs == {"dev", "app"}

\* what the keyring backend does with a call: it answers ("ok"), it is not
\* there or raises ("unavailable"), or it never returns ("hang")
Backends == {"ok", "unavailable", "hang"}

\* a keyring slot or an entry of the fallback file: absent, a JSON dict with
\* session_id and csrf_token (None when the key is missing), or text that is
\* no JSON
Entry(kind, session_id, csrf_token) ==
    [kind |-> kind, session_id |-> session_id, csrf_token |-> csrf_token]

NoEntry == Entry("absent", NoneStr, NoneStr)

\* json.dumps({"session_id": ..., "csrf_token": ..., ...})
SessionEntry(session_id, csrf_token) == Entry("json", session_id, csrf_token)

\* the fallback file: missing, text that is no JSON ("garbage"), or a JSON
\* dict with an entry per environment and, at its top level, the session_id
\* and csrf_token keys of the file of one environment (top)
File(state, entries, top) == [state |-> state, entries |-> entries, top |-> top]

NoFile == File("missing", [e \in Envs |-> NoEntry], NoEntry)

\* thread.join() waiting for the thread to end
thread_join_no_timeout(b) == [returned |-> b # "hang", alive |-> FALSE]

\* thread.join(timeout=timeout): the caller goes on when the thread ended or
\* the timeout elapsed; alive says whether the thread still runs then
thread_join(b) == [returned |-> TRUE, alive |-> b = "hang"]

\* the thread of a wrapper that still runs when the wrapper returned: the
\* set_password or delete_password (value NoEntry) that it has in flight for
\* the slot of an environment. superseded tells that a later save or clear
\* of that environment has returned since
abandoned_thread(e, value, b) ==
    IF thread_join(b).alive
    THEN {[env |-> e, value |-> value, superseded |-> FALSE]} ELSE {}

\* the threads left running once a save or a clear of environment e returned
\* and left the threads in left behind
after_call(threads, e, left) ==
    {[w EXCEPT !.superseded = (@ \/ w.env = e)] : w \in threads} \cup left

\* one step of a call on the store, for the trace of the call
StoreCall(fn, ret, answer) ==
    [fn |-> fn, ret |-> ret, raised |-> FALSE, sent |-> FALSE, answer |-> answer, out |-> ""]

\* _keyring_get_with_timeout: the slot of the environment, or None when the
\* backend is not there, raised, or still runs after the timeout
keyring_get_with_timeout(kr, e, b) ==
    IF b = "unavailable" THEN [returned |-> TRUE, value |-> NoEntry]
    ELSE [returned |-> thread_join(b).returned,
          value |-> IF thread_join(b).alive THEN NoEntry ELSE kr[e]]

\* _keyring_set_with_timeout: the keyring after it, and success[0] and not
\* thread.is_alive()
keyring_set_with_timeout(kr, e, value, b) ==
    IF b = "unavailable" THEN [returned |-> TRUE, keyring |-> kr, ret |-> FALSE]
    ELSE [returned |-> thread_join(b).returned,
          keyring |-> IF b = "ok" THEN [kr EXCEPT ![e] = value] ELSE kr,
          ret |-> b = "ok" /\ ~thread_join(b).alive]

\* _keyring_delete_with_timeout: delete_password of a slot that is absent
\* raises, which leaves success[0] False
keyring_delete_with_timeout(kr, e, b) ==
    IF b = "unavailable" THEN [returned |-> TRUE, keyring |-> kr, ret |-> FALSE]
    ELSE [returned |-> thread_join(b).returned,
          keyring |-> IF b = "ok" THEN [kr EXCEPT ![e] = NoEntry] ELSE kr,
          ret |-> b = "ok" /\ kr[e] # NoEntry /\ ~thread_join(b).alive]

\* env_data = data.get(self.env, data): the entry of the environment, or the
\* top level of the file when it has none
env_data(file, e) == IF file.entries[e].kind = "absent" THEN file.top ELSE file.entries[e]

\* the second half of _load_session, with the fields as the first half left
\* them: a file that is missing or does not parse leaves them, as does an
\* entry that is no dict
load_from_file(session_id, csrf_token, file, e) ==
    IF file.state # "json" \/ env_data(file, e).kind = "garbage"
    THEN [session_id |-> session_id, csrf_token |-> csrf_token]
    ELSE [session_id |-> env_data(file, e).session_id,
          csrf_token |-> env_data(file, e).csrf_token]

\* _load_session after the keyring gave stored: a stored dict with both
\* values is taken; any other leaves what it has in the fields and goes on
\* to the file
load_stored(stored, file, e) ==
    IF stored.kind = "json" /\ Truthy(stored.session_id) /\ Truthy(stored.csrf_token)
    THEN [session_id |-> stored.session_id, csrf_token |-> stored.csrf_token,
          read_file |-> FALSE]
    ELSE IF stored.kind = "json"
         THEN [session_id |-> load_from_file(stored.session_id, stored.csrf_token, file, e).session_id,
               csrf_token |-> load_from_file(stored.session_id, stored.csrf_token, file, e).csrf_token,
               read_file |-> TRUE]
         ELSE [session_id |-> load_from_file(NoneStr, NoneStr, file, e).session_id,
               csrf_token |-> load_from_file(NoneStr, NoneStr, file, e).csrf_token,
               read_file |-> TRUE]

\* BrowserAuth._load_session for environment e
load_session(kr, file, e, b) ==
    [session_id |-> load_stored(keyring_get_with_timeout(kr, e, b).value, file, e).session_id,
     csrf_token |-> load_stored(keyring_get_with_timeout(kr, e, b).value, file, e).csrf_token,
     returned |-> keyring_get_with_timeout(kr, e, b).returned,
     calls |-> <<StoreCall("keyring_get",
                           keyring_get_with_timeout(kr, e, b).value # NoEntry, b)>>
               \o (IF load_stored(keyring_get_with_timeout(kr, e, b).value, file, e).read_file
                   THEN <<StoreCall("file_read", file.state = "json", file.state)>>
                   ELSE <<>>)]

\* _save_to_fallback_file: a file that does not parse is left as it is
save_to_fallback_file(file, e, session_id, csrf_token) ==
    IF file.state = "garbage" THEN file
    ELSE File("json", [file.entries EXCEPT ![e] = SessionEntry(session_id, csrf_token)],
              file.top)

\* _save_session after _keyring_set_with_timeout returned s
save_session_result(s, file, e, session_id, csrf_token, b) ==
    [keyring |-> s.keyring,
     file |-> IF s.ret THEN file ELSE save_to_fallback_file(file, e, session_id, csrf_token),
     returned |-> s.returned,
     calls |-> <<StoreCall("keyring_set", s.ret, b)>>
               \o (IF s.ret THEN <<>>
                   ELSE <<StoreCall("file_write", file.state # "garbage", file.state)>>)]

\* BrowserAuth._save_session for environment e
save_session(kr, file, e, session_id, csrf_token, b) ==
    save_session_result(
        keyring_set_with_timeout(kr, e, SessionEntry(session_id, csrf_token), b),
        file, e, session_id, csrf_token, b)

\* the file after data.pop(self.env, None) is written back
pop_from_fallback_file(file, e) ==
    IF file.state # "json" THEN file
    ELSE File("json", [file.entries EXCEPT ![e] = NoEntry], file.top)

\* clear_session after _keyring_delete_with_timeout returned d
clear_store_result(d, file, e, b) ==
    [keyring |-> d.keyring,
     file |-> pop_from_fallback_file(file, e),
     returned |-> d.returned,
     calls |-> <<StoreCall("keyring_delete", d.ret, b),
                 StoreCall("file_write", file.state = "json", file.state)>>]

\* the part of BrowserAuth.clear_session that removes the persisted session
clear_store(kr, file, e, b) ==
    clear_store_result(keyring_delete_with_timeout(kr, e, b), file, e, b)

----------------------------------------------------------------------------
(* Either handler, as the client and the scripts call it *)

auth_is_authenticated(a) ==
    IF a.cls = "BrowserAuth" THEN is_authenticated(a) ELSE EnvAuth_is_authenticated(a)

auth_ensure_valid_token(a, t, refreshAns, fetchAns) ==
    IF a.cls = "BrowserAuth"
    THEN BrowserAuth_ensure_valid_token(a, t, refreshAns, fetchAns)
    ELSE EnvAuth_ensure_valid_token(a, t, fetchAns)

----------------------------------------------------------------------------
(* The record of the last completed call *)

\* a result of the client: the dict it returns, by its keys. shape names
\* what the dict is; error is its "error" entry ("" when it has none);
\* login_url and instructions whether it carries those keys; status the
\* status code it reports; per_field the "error" entries of the per-field
\* dict of profile_categorical
Result(shape, error, withLogin, status, perField) ==
    [shape |-> shape, error |-> error, login_url |-> withLogin,
     instructions |-> withLogin, status |-> status, per_field |-> perField]

NoResult == Result("none", "", FALSE, 0, <<>>)

Last(op, ret, raised, calls, result) ==
    [op |-> op, ret |-> ret, raised |-> raised, calls |-> calls, result |-> result]

\* the requests a call sent, in order
Requests(calls) == SelectSeq(calls, LAMBDA c : c.sent)

----------------------------------------------------------------------------
(* The paginated fetch: its state when no fetch runs *)

\* what the server saw of a run: the number of requests (nreq) and of those
\* at the present offset (attempts), the offset of the last request, the
\* pages it sent, the number of ensure_valid_token calls made in the last
\* step, and which kinds of answers it gave:
\*   clean          every answer was a 200 with the rows asked for
\*   authOnly       every other answer was a 401, each followed by such a 200
\*   prev401        the last answer was a 401
\*   transientOnly  every answer at the present offset was a 429, a status
\*                  >= 500 or a timeout
\* and of the calls of ensure_valid_token made at the head of the loop, before
\* the request of a page: how many the head of the present page made
\* (proactive) and the offset of the last one (validatedAt, 0 for the
\* validation that precedes the fetch)
HistInit ==
    [nreq |-> 0, attempts |-> 0, lastOffset |-> 0, received |-> <<>>, ensured |-> 0,
     clean |-> TRUE, authOnly |-> TRUE, prev401 |-> FALSE, transientOnly |-> TRUE,
     proactive |-> 0, validatedAt |-> 0]

FetchIdle ==
    /\ routine = "none" /\ pc = "idle"
    /\ max_rows = 0 /\ offset = 0 /\ retry_count = 0
    /\ all_data = <<>> /\ dataset = 0
    /\ hist = HistInit

----------------------------------------------------------------------------
(* IntelligenceWorkbook.fetch_all_data: its state when no fan-out runs *)

\* the four fetches of the fan-out
Tasks == {"pnl", "kpi", "vendor", "cost_center"}

\* the keys of self.aggregated_data that the fetches store
Keys == {"monthly_by_account", "account_l2", "vendor", "cost_center"}

\* a list of the workbook is "rows" (records from the server), "client_side"
\* (records aggregated from self.pnl_data), "empty" ([]), or "unset" (the key
\* is not in the dict)
FanState(at, p) ==
    [pc |-> at, plan |-> p, pnl_data |-> "empty", kpi_data |-> "empty",
     aggregated_data |-> [k \in Keys |-> "unset"]]

\* what the server answers to each fetch when every query succeeds
PlanAllRows ==
    [pnl |-> [kind |-> "status", code |-> 200, body |-> "rows"],
     pnl_l2 |-> [kind |-> "status", code |-> 200, body |-> "rows"],
     pnl_raw |-> "rows",
     kpi |-> [kind |-> "status", code |-> 200, body |-> "rows"],
     kpi_raw |-> "rows",
     vendor |-> [kind |-> "status", code |-> 200, body |-> "rows"],
     cost_center |-> [kind |-> "status", code |-> 200, body |-> "rows"]]

FanIdle == fan = FanState([t \in Tasks |-> "idle"], PlanAllRows)

----------------------------------------------------------------------------
(* constants.py: the active environment and config/environments.json *)

DEFAULT_ENV == "dev"

\* the names of DEFAULT_ENVIRONMENTS
DefaultEnvNames == {"dev", "demo", "testapp", "app"}

\* an environments map: the set of its <<name, urls>> items, urls telling
\* apart the values of DEFAULT_ENVIRONMENTS ("default") from others
DEFAULT_ENVIRONMENTS == {<<n, "default">> : n \in DefaultEnvNames}

\* result.update(environments)
dict_update(result, environments) ==
    {i \in result : ~\E j \in environments : j[1] = i[1]} \cup environments

\* the dict of environments.json: the keys it has and the values of
\* "active_environment", "environments" and "default_environment" (None and
\* the empty map for a key it has not); "custom" is any other key
Config(keys, active_environment, environments, default_environment) ==
    [keys |-> keys, active_environment |-> active_environment,
     environments |-> environments, default_environment |-> default_environment]

EmptyConfig == Config({}, NoneStr, {}, NoneStr)

\* the configuration on disk: whether _find_config_dir() finds a directory,
\* whether environments.json is missing, no JSON ("garbage") or a JSON dict,
\* whether open(config_file, "w") succeeds, and the dict
ConfigFile(dir, state, writable, config) ==
    [dir |-> dir, state |-> state, writable |-> writable, config |-> config]

NoConfigFile == ConfigFile(FALSE, "missing", FALSE, EmptyConfig)

\* _load_environments_config
load_environments_config(f) ==
    IF ~f.dir \/ f.state # "json" THEN EmptyConfig ELSE f.config

\* _save_environments_config: the file after it and what it returns
save_environments_config(f, config) ==
    IF f.dir /\ f.writable
    THEN [file |-> ConfigFile(TRUE, "json", TRUE, config), ret |-> TRUE]
    ELSE [file |-> f, ret |-> FALSE]

\* get_environments
get_environments(f) ==
    dict_update(DEFAULT_ENVIRONMENTS, load_environments_config(f).environments)

\* get_active_environment reading the configuration before the variable
get_active_environment_config_first(ev, f) ==
    IF "active_environment" \in load_environments_config(f).keys
    THEN load_environments_config(f).active_environment
    ELSE IF Truthy(ev) THEN ev ELSE DEFAULT_ENV

\* get_active_environment, ev the value of os.environ.get("DATARAILS_ENV")
get_active_environment(ev, f) ==
    IF Truthy(ev) THEN ev
    ELSE IF "active_environment" \in load_environments_config(f).keys
         THEN load_environments_config(f).active_environment
         ELSE DEFAULT_ENV

\* the dict that set_active_environment saves: the one loaded, or a new
\* one when that is empty, with config["active_environment"] = n
config_to_save(f, n) ==
    IF load_environments_config(f).keys = {}
    THEN Config({"environments", "default_environment", "active_environment"},
                n, get_environments(f), DEFAULT_ENV)
    ELSE [load_environments_config(f) EXCEPT
            !.keys = @ \cup {"active_environment"}, !.active_environment = n]

\* set_active_environment writing the file without the new selection
set_active_environment_not_stored(f, n) ==
    save_environments_config(f, load_environments_config(f))

\* set_active_environment
set_active_environment(f, n) == save_environments_config(f, config_to_save(f, n))

----------------------------------------------------------------------------
(* The state of the process when neither the server nor the diagnostic runs *)

\* os.environ: the variables that the program reads (None for one that is
\* not set)
Environ(name, session_id, csrf_token, jwt_token) ==
    [DATARAILS_ENV |-> name, DATARAILS_SESSION_ID |-> session_id,
     DATARAILS_CSRF_TOKEN |-> csrf_token, DATARAILS_JWT_TOKEN |-> jwt_token]

\* _client = None
NoClient == "None"

\* the full pagination test: where it is ("idle", "loop", "request",
\* "returned", "reported", "raised"), its offset, page_count, len(errors), token_refreshes and
\* len(all_data), the number of rows of the table, and the number of
\* requests in a row that were answered 401 (retries)
DiagState(at, rows) ==
    [pc |-> at, offset |-> 0, page_count |-> 0, errors |-> 0, token_refreshes |-> 0,
     all_data |-> 0, dataset |-> rows, retries |-> 0]

ProcessIdle ==
    /\ environ = Environ(NoneStr, NoneStr, NoneStr, NoneTok)
    /\ config_file = NoConfigFile
    /\ client = NoClient
    /\ diag = DiagState("idle", 0)

----------------------------------------------------------------------------
(* Token lifecycle: the operations on one handler *)

StoredSessions == {<<NoneStr, NoneStr>>, <<"s1", NoneStr>>, <<"s1", "c1">>}

\* the store that a handler found when it was made: a BrowserAuth has what
\* its keyring slot holds, an EnvAuth has its values from the environment
\* variables and nothing is stored
StoreOf(a) ==
    /\ env = "dev"
    /\ backend = "ok"
    /\ keyring = [e \in Envs |->
                    IF e = "dev" /\ a.cls = "BrowserAuth" /\ a.session_id # NoneStr
                    THEN SessionEntry(a.session_id, a.csrf_token) ELSE NoEntry]
    /\ fallback_file = NoFile
    /\ pending = {}
    /\ ProcessIdle

Init ==
    /\ auth \in {BrowserAuth_init(s[1], s[2]) : s \in StoredSessions}
                \cup {EnvAuth_init(s[1], s[2], j) :
                        s \in StoredSessions, j \in {NoneTok, Jwt(3, "exp", REFRESH_BUFFER_SECONDS + 2)}}
    /\ StoreOf(auth)
    /\ now = 0
    /\ schema_cache = {}
    /\ last = Last("init", FALSE, FALSE, <<>>, NoResult)
    /\ FetchIdle
    /\ FanIdle

\* the answers worth telling apart for one call: an endpoint that the call
\* does not ask has one answer
AnyAnswer == [kind |-> "timeout", code |-> 0, body |-> NoBody]

AnswersIf(asked) == IF asked THEN TokenAnswers ELSE {AnyAnswer}

AsksRefresh(a, t) ==
    a.cls = "BrowserAuth" /\ needs_refresh(a, t) /\ refresh_token_valid(a, t)

AsksFetch(a, t, refreshAns) ==
    \E c \in Range(auth_ensure_valid_token(a, t, refreshAns, AnyAnswer).calls) :
        c.fn = "fetch_token_pair" /\ c.sent

EnsureValidToken ==
    \E refreshAns \in AnswersIf(AsksRefresh(auth, now)) :
      \E fetchAns \in AnswersIf(AsksFetch(auth, now, refreshAns)) :
        LET o == auth_ensure_valid_token(auth, now, refreshAns, fetchAns) IN
        /\ auth' = o.auth
        /\ last' = Last("ensure_valid_token", o.ret, o.raised, o.calls, NoResult)
        /\ UNCHANGED <<now, schema_cache>>
        /\ UNCHANGED <<fetchVars, fan, processVars>>
        /\ UNCHANGED storeVars

\* a call that works on the store returned as r says (ret of the record
\* tells whether it returned)
StoreStep(op, r, left) ==
    /\ Cardinality(after_call(pending, env, left)) <= MaxPending
    /\ keyring' = r.keyring
    /\ fallback_file' = r.file
    /\ pending' = after_call(pending, env, left)
    /\ last' = Last(op, r.returned, FALSE, r.calls, NoResult)
    /\ UNCHANGED <<env, backend>>

\* BrowserAuth.set_session_cookies, with its _save_session()
SetSessionCookies ==
    /\ auth.cls = "BrowserAuth"
    /\ \E s \in SessionIds, c \in CsrfTokens :
           /\ auth' = set_session_cookies(auth, s, c)
           /\ StoreStep("set_session_cookies",
                        save_session(keyring, fallback_file, env, s, c, backend),
                        abandoned_thread(env, SessionEntry(s, c), backend))
    /\ UNCHANGED <<now, schema_cache>>
    /\ UNCHANGED <<fetchVars, fan, processVars>>

\* BrowserAuth.clear_session
ClearSession ==
    /\ auth.cls = "BrowserAuth"
    /\ auth' = clear_session(auth)
    /\ StoreStep("clear_session", clear_store(keyring, fallback_file, env, backend),
                 abandoned_thread(env, NoEntry, backend))
    /\ UNCHANGED <<now, schema_cache>>
    /\ UNCHANGED <<fetchVars, fan, processVars>>

\* time passes
Tick ==
    /\ now < MaxNow
    /\ now' = now + 1
    /\ last' = Last("tick", FALSE, FALSE, <<>>, NoResult)
    /\ UNCHANGED <<auth, schema_cache>>
    /\ UNCHANGED <<fetchVars, fan, processVars>>
    /\ UNCHANGED storeVars

Next ==
    \/ EnsureValidToken
    \/ SetSessionCookies
    \/ ClearSession
    \/ Tick

Spec == Init /\ [][Next]_vars


----------------------------------------------------------------------------
(* Claims about BrowserAuth.ensure_valid_token and EnvAuth.ensure_valid_token *)

\* this step is a call of ensure_valid_token on a handler of class cls
EnsureStep(cls) == last'.op = "ensure_valid_token" /\ auth.cls = cls

\* the fast-path condition as the claims state it
ValidAt(a, t) == TokTruthy(a.access_token) /\ t < a.access_exp - REFRESH_BUFFER_SECONDS

SentTo(calls, fn) == {i \in DOMAIN calls : calls[i].fn = fn /\ calls[i].sent}
Invoked(calls, fn) == {i \in DOMAIN calls : calls[i].fn = fn}

\* C1: a call of BrowserAuth.ensure_valid_token made while an access token is
\* held and now is earlier than its expiry minus the buffer returns true,
\* sends no request and leaves the tokens and expiries as they were.
C1_FastPath ==
    [][(EnsureStep("BrowserAuth") /\ ValidAt(auth, now))
        => /\ last'.ret /\ ~last'.raised
           /\ Requests(last'.calls) = <<>>
           /\ auth' = auth]_vars

C1_Witness ==
    /\ last.op = "ensure_valid_token" /\ auth.cls = "BrowserAuth"
    /\ ValidAt(auth, now) /\ last.ret /\ last.calls = <<>>

\* C2 as stated: off the fast path exactly one request is sent.
C2_ExactlyOneCall ==
    [][(EnsureStep("BrowserAuth") /\ ~ValidAt(auth, now))
        => Len(Requests(last'.calls)) = 1]_vars

\* C2 as amended: a call made when no access token is held or now is later than
\* expiry minus the buffer sends at most one request to each token endpoint:
\* a refresh exchange exactly when a valid refresh token is held, and a full
\* fetch exactly when the Session Credential is held and no refresh exchange
\* was sent or the one sent failed; at now = expiry - buffer no request is sent.
C2_AtMostOneCallEach ==
    [][EnsureStep("BrowserAuth")
        => LET calls == last'.calls
               refreshes == SentTo(calls, "refresh_access_token")
               fetches == SentTo(calls, "fetch_token_pair")
               stale == ~TokTruthy(auth.access_token)
                        \/ now > auth.access_exp - REFRESH_BUFFER_SECONDS IN
           /\ Cardinality(refreshes) <= 1 /\ Cardinality(fetches) <= 1
           /\ Len(Requests(calls)) = Cardinality(refreshes) + Cardinality(fetches)
           /\ stale =>
                /\ refreshes # {} <=> refresh_token_valid(auth, now)
                /\ fetches # {} <=>
                     /\ has_session(auth)
                     /\ \A i \in refreshes : ~calls[i].ret
           /\ ~stale => Requests(calls) = <<>>]_vars

\* a stale call that sent two requests: a failed refresh exchange, then the
\* full fetch
C2_Witness ==
    /\ last.op = "ensure_valid_token" /\ auth.cls = "BrowserAuth"
    /\ Len(Requests(last.calls)) = 2
    /\ last.ret

\* C3: off the fast path a refresh exchange is attempted iff a refresh token is
\* held and now is earlier than its expiry minus the buffer; the full fetch
\* (_fetch_token_pair, which sends its request iff the Session Credential is
\* held) is attempted iff no refresh exchange was attempted or the attempted
\* one failed, and then after it; never after a successful refresh.
C3_RefreshThenRefetch ==
    [][(EnsureStep("BrowserAuth") /\ needs_refresh(auth, now))
        => LET calls == last'.calls
               refreshes == SentTo(calls, "refresh_access_token")
               fetches == Invoked(calls, "fetch_token_pair") IN
           /\ refreshes # {} <=>
                (TokTruthy(auth.refresh_token)
                   /\ now < auth.refresh_exp - REFRESH_BUFFER_SECONDS)
           /\ refreshes = Invoked(calls, "refresh_access_token")
           /\ fetches # {} <=> (refreshes = {} \/ \E i \in refreshes : ~calls[i].ret)
           /\ \A i \in refreshes, j \in fetches : i < j
           /\ \A i \in refreshes : calls[i].ret => fetches = {}
           /\ \A j \in fetches : calls[j].sent <=> has_session(auth)
           /\ Cardinality(refreshes) <= 1 /\ Cardinality(fetches) <= 1]_vars

\* a failed refresh exchange followed by the full fetch
C3_Witness ==
    /\ last.op = "ensure_valid_token" /\ auth.cls = "BrowserAuth"
    /\ Len(last.calls) = 2
    /\ last.calls[1].fn = "refresh_access_token" /\ ~last.calls[1].ret
    /\ last.calls[2].fn = "fetch_token_pair" /\ last.calls[2].sent

\* C4: ensure_valid_token of either handler never raises, and a call that
\* needs a token returns false when every request it sent failed (connection
\* error, timeout, status other than 200, 200 without the expected fields),
\* and when it sent none because the Session Credential is missing.
C4_NeverRaises ==
    [][last'.op = "ensure_valid_token"
        => /\ ~last'.raised
           /\ LET stale == IF auth.cls = "BrowserAuth" THEN needs_refresh(auth, now)
                           ELSE EnvAuth_needs_refresh(auth, now) IN
              (stale /\ \A c \in Range(last'.calls) : c.answer # "ok")
                 => ~last'.ret]_vars

\* both endpoints asked and both failing, the second with an incomplete body
C4_Witness ==
    /\ last.op = "ensure_valid_token" /\ ~last.ret
    /\ Len(Requests(last.calls)) = 2
    /\ last.calls[2].answer = "incomplete"


\* the state Absent of a BrowserAuth: no session and no tokens
Absent(a) ==
    /\ a.cls = "BrowserAuth"
    /\ a.session_id = NoneStr /\ a.csrf_token = NoneStr
    /\ a.access_token = NoneTok /\ a.refresh_token = NoneTok

\* a token pair that is fresh at time t
FreshPair(t) ==
    [kind |-> "status", code |-> 200,
     body |-> [json |-> TRUE,
               access |-> Jwt(3, "exp", t + REFRESH_BUFFER_SECONDS + 1),
               refresh |-> Jwt(3, "exp", t + REFRESH_BUFFER_SECONDS + 1)]]

\* from a and t the handler gets to Valid: new session cookies, then one
\* ensure_valid_token answered with a fresh pair
CanReturnToValid(a, t) ==
    \E s \in SessionIds, c \in CsrfTokens :
        ValidAt(BrowserAuth_ensure_valid_token(set_session_cookies(a, s, c), t,
                                               FreshPair(t), FreshPair(t)).auth, t)

\* C16: clear_session leaves a BrowserAuth Absent (no session, no tokens,
\* is_authenticated false); an Absent handler stays Absent through every
\* operation but set_session_cookies, and its ensure_valid_token returns
\* false without a request; and every operation leaves the handler in a
\* state from which it gets back to Valid.
C16_AbsentUntilSet ==
    [][/\ last'.op = "clear_session" => Absent(auth') /\ ~is_authenticated(auth')
       /\ (Absent(auth) /\ last'.op # "set_session_cookies") => Absent(auth')
       /\ (Absent(auth) /\ last'.op = "ensure_valid_token")
            => /\ ~last'.ret /\ ~last'.raised
               /\ \A c \in Range(last'.calls) : ~c.sent
       /\ auth.cls = "BrowserAuth" => CanReturnToValid(auth', now')]_vars

\* C16 (witness): a clear_session that removed a stored session left the
\* handler Absent.
C16_Witness ==
    /\ last.op = "clear_session" /\ last.calls[1].fn = "keyring_delete" /\ last.calls[1].ret
    /\ Absent(auth)

\* a Session Credential is present: a session id and a CSRF token
CredentialPresent(a) ==
    a.session_id \notin {NoneStr, ""} /\ a.csrf_token \notin {NoneStr, ""}

\* the handler with another access token, or none
WithAccessToken(a, tok) == [a EXCEPT !.access_token = tok]

\* C18 as stated: on either handler is_authenticated() is true exactly when
\* the Session Credential is present.
C18_IffCredential ==
    auth_is_authenticated(auth) <=> CredentialPresent(auth)

\* C18: is_authenticated() of a BrowserAuth is true exactly when the Session
\* Credential is present; that of an EnvAuth exactly when the Session
\* Credential is present or a direct JWT is configured; neither depends on
\* the access token that is held.
C18_IffCredentialOrJwt ==
    /\ auth.cls = "BrowserAuth"
         => (auth_is_authenticated(auth) <=> CredentialPresent(auth))
    /\ auth.cls = "EnvAuth"
         => (auth_is_authenticated(auth)
               <=> CredentialPresent(auth) \/ auth.jwt_token.val = "str")
    /\ \A tok \in IssuedTokens \cup {NoneTok} :
           auth_is_authenticated(WithAccessToken(auth, tok)) = auth_is_authenticated(auth)

\* C18 (witness): a BrowserAuth that was just given its session cookies holds
\* no access token and is authenticated.
C18_Witness ==
    /\ auth.cls = "BrowserAuth" /\ last.op = "set_session_cookies"
    /\ CredentialPresent(auth) /\ auth.access_token = NoneTok
    /\ auth_is_authenticated(auth)

\* C24: when BrowserAuth.ensure_valid_token returns true the access token is
\* Valid: it is held and the time is not later than its recorded expiry minus
\* the buffer, so that the next call at the same instant takes the fast path.
C24_TrueMeansValid ==
    [][(EnsureStep("BrowserAuth") /\ last'.ret)
         => /\ TokTruthy(auth'.access_token)
            /\ now' <= auth'.access_exp - REFRESH_BUFFER_SECONDS
            /\ BrowserAuth_ensure_valid_token(auth', now', AnyAnswer, AnyAnswer).calls = <<>>]_vars

\* the token state of a handler
TokenState(a) == <<a.access_token, a.refresh_token, a.access_exp, a.refresh_exp>>

\* C25: when BrowserAuth.ensure_valid_token returns false the access token,
\* the refresh token and both recorded expiries are what they were before the
\* call.
C25_FalseLeavesTokens ==
    [][(EnsureStep("BrowserAuth") /\ ~last'.ret /\ ~last'.raised)
         => TokenState(auth') = TokenState(auth)]_vars

\* C26: set_session_cookies leaves no cached access or refresh token
\* (has_access_token false, needs_refresh true), and the ensure_valid_token
\* that follows it asks the token endpoint for a pair, with the session the
\* handler was given, and makes no refresh exchange.
C26_SetDropsTokens ==
    /\ [][last'.op = "set_session_cookies"
            => /\ ~TokTruthy(auth'.access_token) /\ ~TokTruthy(auth'.refresh_token)
               /\ needs_refresh(auth', now')
               /\ has_session(auth')]_vars
    /\ [][(last.op = "set_session_cookies" /\ last'.op = "ensure_valid_token")
            => /\ Len(last'.calls) = 1
               /\ last'.calls[1].fn = "fetch_token_pair" /\ last'.calls[1].sent
               /\ Invoked(last'.calls, "refresh_access_token") = {}
               /\ auth'.session_id = auth.session_id
               /\ auth'.csrf_token = auth.csrf_token]_vars

\* C26 (witness): a handler that held a refresh token with time left on it
\* was given new session cookies and holds no token.
C26_Witness ==
    /\ last.op = "set_session_cookies"
    /\ now < auth.refresh_exp - REFRESH_BUFFER_SECONDS
    /\ ~TokTruthy(auth.access_token) /\ ~TokTruthy(auth.refresh_token)

----------------------------------------------------------------------------
(* scripts/intelligence_workbook.py, scripts/extract_financials.py:
   the paginated fetch *)

Min(a, b) == IF a < b THEN a ELSE b

Sat(n) == Min(n, MaxCount)

\* len(all_data)
RECURSIVE TotalRows(_)
TotalRows(pages) ==
    IF pages = <<>> THEN 0 ELSE Head(pages).n + TotalRows(Tail(pages))

\* the rows the table holds for a request with this offset and limit 500
PageAt(off) ==
    [off |-> off, n |-> IF dataset > off THEN Min(PAGE_SIZE, dataset - off) ELSE 0]

EmptyPage(off) == [off |-> off, n |-> 0]

\* what the data endpoint answers: a status with a body ("rows": JSON with the
\* rows under 'data'; "nodata": JSON without 'data'; "unparsable"), or the
\* request fails
DataStatus(code, body) == [kind |-> "status", code |-> code, body |-> body]
DataFailure(kind) == [kind |-> kind, code |-> 0, body |-> "none"]

Answers401 == {DataStatus(401, "none")}
Answers429 == {DataStatus(429, "none")}
Answers5xx == {DataStatus(c, "none") : c \in {500, 503}}
AnswersOtherStatus == {DataStatus(c, "none") : c \in {403, 404}}
Answers200 == {DataStatus(200, b) : b \in {"rows", "nodata"}}
AnswersTimeout == {DataFailure("timeout")}
AnswersException == {DataFailure("connect_error"), DataStatus(200, "unparsable")}

DataAnswers ==
    Answers401 \cup Answers429 \cup Answers5xx \cup AnswersOtherStatus
    \cup Answers200 \cup AnswersTimeout \cup AnswersException

\* the kind of an answer, for hist
DataKind(ans) ==
    IF ans \in Answers401 THEN "401"
    ELSE IF ans \in Answers429 THEN "429"
    ELSE IF ans \in Answers5xx THEN "5xx"
    ELSE IF ans \in AnswersOtherStatus THEN "other"
    ELSE IF ans \in AnswersTimeout THEN "timeout"
    ELSE IF ans \in AnswersException THEN "exception"
    ELSE ans.body

Transient == {"429", "5xx", "timeout"}

\* resp.json().get('data', [])
PageOf(ans, off) == IF ans.body = "rows" THEN PageAt(off) ELSE EmptyPage(off)

\* hist after a request at offset off got an answer of this kind; ens is the
\* number of ensure_valid_token calls of the step, advanced whether the
\* routine moved to the next offset
Observed(h, off, kind, page, ens, advanced) ==
    [nreq |-> Sat(h.nreq + 1),
     attempts |-> IF advanced THEN 0 ELSE Sat(h.attempts + 1),
     lastOffset |-> off,
     received |-> IF page.n > 0 THEN Append(h.received, page) ELSE h.received,
     ensured |-> ens,
     clean |-> h.clean /\ kind = "rows",
     authOnly |-> h.authOnly /\ kind \in {"rows", "401"} /\ (h.prev401 => kind = "rows"),
     prev401 |-> kind = "401",
     transientOnly |-> IF advanced THEN TRUE ELSE h.transientOnly /\ kind \in Transient,
     proactive |-> h.proactive, validatedAt |-> h.validatedAt]

\* hist after the head of the loop at offset off, which called
\* ensure_valid_token or did not
AtLoopHead(h, off, called) ==
    [h EXCEPT !.ensured = IF called THEN 1 ELSE 0,
              !.proactive = IF called THEN 1 ELSE 0,
              !.validatedAt = IF called THEN off ELSE @]

\* the head of the loop validating at every offset but the first
proactive_reauth_every_page(off) == off > 0

\* if offset > 0 and offset % 20000 == 0: await self.auth.ensure_valid_token()
proactive_reauth(off) == off > 0 /\ off % REAUTH_EVERY = 0

\* what the token endpoints answer during a fetch
FetchTokenAnswers ==
    {AnyAnswer,
     [kind |-> "status", code |-> 200,
      body |-> [json |-> TRUE,
                access |-> Jwt(3, "exp", REFRESH_BUFFER_SECONDS + 2),
                refresh |-> Jwt(3, "exp", REFRESH_BUFFER_SECONDS + 2)]]}

\* await self.auth.ensure_valid_token(), when the step calls it
EnsureOutcomes(a, called) ==
    IF called
    THEN {auth_ensure_valid_token(a, now, ra, fa) :
            ra \in FetchTokenAnswers, fa \in FetchTokenAnswers}
    ELSE {Outcome(a, TRUE, FALSE, <<>>)}

MaxRowsArgs == {1000, 1200, 2000, DEFAULT_MAX_ROWS}
DatasetSizes == {0, 200, 500, 1200, 1700, 2500, 2 * REAUTH_EVERY + 700}

FetchInit ==
    /\ auth = BrowserAuth_init("s1", "c1")
    /\ StoreOf(auth)
    /\ now = 0
    /\ schema_cache = {}
    /\ last = Last("init", FALSE, FALSE, <<>>, NoResult)
    /\ routine \in {"workbook", "extractor"}
    /\ pc = "loop"
    /\ max_rows \in MaxRowsArgs
    /\ dataset \in DatasetSizes
    /\ offset = 0 /\ retry_count = 0
    /\ all_data = <<>>
    /\ hist = HistInit
    /\ FanIdle

FetchDone == pc \in {"returned", "raised"}

\* IntelligenceWorkbook._fetch_raw_data_paginated: the head of the outer loop
WorkbookLoop ==
    /\ routine = "workbook" /\ pc = "loop"
    /\ IF TotalRows(all_data) >= max_rows
       THEN /\ pc' = "returned"
            /\ UNCHANGED <<auth, retry_count, hist>>
       ELSE LET proactive == proactive_reauth(offset) IN
            \E o \in EnsureOutcomes(auth, proactive) :
               /\ auth' = o.auth
               /\ hist' = AtLoopHead(hist, offset, proactive)
               /\ IF o.raised
                  THEN pc' = "raised" /\ UNCHANGED retry_count
                  ELSE pc' = "retry" /\ retry_count' = 0
    /\ UNCHANGED <<now, schema_cache, last, storeVars, fan, processVars, routine, max_rows, offset, all_data, dataset>>

\* the retry loop admitting one attempt more
Retry_one_more ==
    /\ retry_count' = retry_count + 1
    /\ pc' = IF retry_count + 1 <= MAX_RETRIES THEN "retry" ELSE "returned"
    /\ UNCHANGED <<offset, all_data>>

\* retry_count += 1; continue: the inner loop goes on while retry_count <
\* max_retries, and the outer loop breaks when it reached max_retries
Retry ==
    /\ retry_count' = retry_count + 1
    /\ pc' = IF retry_count + 1 < MAX_RETRIES THEN "retry" ELSE "returned"
    /\ UNCHANGED <<offset, all_data>>

\* the 401 branch moving on to the next page
On401_skipping_page ==
    /\ routine = "workbook" /\ pc = "retry"
    /\ \E ans \in Answers401, o \in EnsureOutcomes(auth, TRUE) :
          /\ auth' = o.auth
          /\ hist' = Observed(hist, offset, DataKind(ans), EmptyPage(offset), 1, FALSE)
    /\ retry_count' = retry_count + 1
    /\ pc' = IF retry_count + 1 < MAX_RETRIES THEN "retry" ELSE "returned"
    /\ offset' = offset + PAGE_SIZE
    /\ UNCHANGED <<now, schema_cache, last, storeVars, fan, processVars, routine, max_rows, dataset, all_data>>

\* status 401
On401 ==
    /\ routine = "workbook" /\ pc = "retry"
    /\ \E ans \in Answers401, o \in EnsureOutcomes(auth, TRUE) :
          /\ auth' = o.auth
          /\ hist' = Observed(hist, offset, DataKind(ans), EmptyPage(offset), 1, FALSE)
    /\ Retry
    /\ UNCHANGED <<now, schema_cache, last, storeVars, fan, processVars, routine, max_rows, dataset>>

On429 ==
    /\ routine = "workbook" /\ pc = "retry"
    /\ \E ans \in Answers429 :
          hist' = Observed(hist, offset, DataKind(ans), EmptyPage(offset), 0, FALSE)
    /\ Retry
    /\ UNCHANGED <<auth, now, schema_cache, last, storeVars, fan, processVars, routine, max_rows, dataset>>

On5xx ==
    /\ routine = "workbook" /\ pc = "retry"
    /\ \E ans \in Answers5xx :
          hist' = Observed(hist, offset, DataKind(ans), EmptyPage(offset), 0, FALSE)
    /\ Retry
    /\ UNCHANGED <<auth, now, schema_cache, last, storeVars, fan, processVars, routine, max_rows, dataset>>

\* any other status that is not 200: break out of the inner loop, with
\* retry_count < max_retries
OnOtherStatus ==
    /\ routine = "workbook" /\ pc = "retry"
    /\ \E ans \in AnswersOtherStatus :
          hist' = Observed(hist, offset, DataKind(ans), EmptyPage(offset), 0, FALSE)
    /\ pc' = "loop"
    /\ UNCHANGED <<auth, now, schema_cache, last, storeVars, fan, processVars, routine, max_rows, offset,
                   retry_count, all_data, dataset>>

\* the 200 branch without offset += 500
OnPage_same_offset ==
    /\ routine = "workbook" /\ pc = "retry"
    /\ \E ans \in Answers200 :
          LET page == PageOf(ans, offset) IN
          /\ hist' = Observed(hist, offset, DataKind(ans), page, 0, FALSE)
          /\ all_data' = IF page.n > 0 THEN Append(all_data, page) ELSE all_data
          /\ pc' = IF page.n < PAGE_SIZE THEN "returned" ELSE "loop"
    /\ UNCHANGED <<auth, now, schema_cache, last, storeVars, fan, processVars, routine, max_rows, offset,
                   retry_count, dataset>>

\* status 200
OnPage ==
    /\ routine = "workbook" /\ pc = "retry"
    /\ \E ans \in Answers200 :
          LET page == PageOf(ans, offset) IN
          IF page.n = 0
          THEN /\ pc' = "returned"
               /\ hist' = Observed(hist, offset, DataKind(ans), page, 0, FALSE)
               /\ UNCHANGED <<offset, all_data>>
          ELSE /\ all_data' = Append(all_data, page)
               /\ IF page.n < PAGE_SIZE
                  THEN /\ pc' = "returned"
                       /\ hist' = Observed(hist, offset, DataKind(ans), page, 0, FALSE)
                       /\ UNCHANGED offset
                  ELSE /\ offset' = offset + PAGE_SIZE
                       /\ pc' = "loop"
                       /\ hist' = Observed(hist, offset, DataKind(ans), page, 0, TRUE)
    /\ UNCHANGED <<auth, now, schema_cache, last, storeVars, fan, processVars, routine, max_rows, retry_count, dataset>>

\* except httpx.TimeoutException
OnTimeout ==
    /\ routine = "workbook" /\ pc = "retry"
    /\ \E ans \in AnswersTimeout :
          hist' = Observed(hist, offset, DataKind(ans), EmptyPage(offset), 0, FALSE)
    /\ Retry
    /\ UNCHANGED <<auth, now, schema_cache, last, storeVars, fan, processVars, routine, max_rows, dataset>>

\* except Exception
OnException ==
    /\ routine = "workbook" /\ pc = "retry"
    /\ \E ans \in AnswersException :
          hist' = Observed(hist, offset, DataKind(ans), EmptyPage(offset), 0, FALSE)
    /\ Retry
    /\ UNCHANGED <<auth, now, schema_cache, last, storeVars, fan, processVars, routine, max_rows, dataset>>


\* FinancialExtractor.fetch_pages after its request (and its second request
\* after a 401) got resp: anything but a full page of rows ends the loop
ExtractorHandle(h, resp, ens) ==
    LET page == IF resp \in Answers200 THEN PageOf(resp, offset) ELSE EmptyPage(offset)
        full == page.n >= PAGE_SIZE IN
    /\ hist' = Observed(h, offset, DataKind(resp), page, ens, full)
    /\ all_data' = IF page.n > 0 THEN Append(all_data, page) ELSE all_data
    /\ IF full
       THEN offset' = offset + PAGE_SIZE /\ pc' = "loop"
       ELSE pc' = "returned" /\ UNCHANGED offset

\* FinancialExtractor.fetch_pages: one turn of its loop
ExtractorIteration ==
    /\ routine = "extractor" /\ pc = "loop"
    /\ IF TotalRows(all_data) >= max_rows
       THEN /\ pc' = "returned"
            /\ UNCHANGED <<auth, offset, all_data, hist>>
       ELSE LET proactive == proactive_reauth(offset)
                p == IF proactive THEN 1 ELSE 0 IN
            \E o0 \in EnsureOutcomes(auth, proactive), r1 \in DataAnswers :
               IF o0.raised
               THEN /\ pc' = "raised" /\ auth' = o0.auth
                    /\ UNCHANGED <<offset, all_data, hist>>
               ELSE IF r1 \in Answers401
                    THEN \E o1 \in EnsureOutcomes(o0.auth, TRUE), r2 \in DataAnswers :
                            /\ auth' = o1.auth
                            /\ ExtractorHandle(
                                 Observed(AtLoopHead(hist, offset, proactive), offset, "401",
                                          EmptyPage(offset), p + 1, FALSE),
                                 r2, p + 1)
                    ELSE /\ auth' = o0.auth
                         /\ ExtractorHandle(AtLoopHead(hist, offset, proactive), r1, p)
    /\ UNCHANGED <<now, schema_cache, last, storeVars, fan, processVars, routine, max_rows, retry_count, dataset>>

FetchNext ==
    \/ WorkbookLoop
    \/ On401
    \/ On429
    \/ On5xx
    \/ OnOtherStatus
    \/ OnPage
    \/ OnTimeout
    \/ OnException
    \/ ExtractorIteration

\* a running routine takes its next step: every request it awaits ends, with
\* an answer or with the timeout of the HTTP client
FetchSpec == FetchInit /\ [][FetchNext]_vars /\ WF_vars(FetchNext)


----------------------------------------------------------------------------
(* Claims about the paginated fetch *)

\* what a run with no failure returns: pages of 500 rows from offset 0 on,
\* up to the first short page or the row cap
RECURSIVE CleanRun(_, _)
CleanRun(off, acc) ==
    IF TotalRows(acc) >= max_rows THEN acc
    ELSE IF PageAt(off).n = 0 THEN acc
    ELSE IF PageAt(off).n < PAGE_SIZE THEN Append(acc, PageAt(off))
    ELSE CleanRun(off + PAGE_SIZE, Append(acc, PageAt(off)))

\* C5 as stated: _fetch_raw_data_paginated returns after finitely many page
\* requests, whatever the server answers.
C5_Terminates == <>(routine = "workbook" => FetchDone)

\* C6: in a run without failures the k-th request is at offset 500 * (k - 1),
\* the first page of fewer than 500 rows ends the run, and all_data is the
\* pages received, in that order; a table of 1700 rows gives 1700 rows in 4
\* requests.
C6_CleanRun ==
    (hist.clean /\ hist.nreq < MaxCount) =>
       /\ all_data = hist.received
       /\ \A i \in DOMAIN all_data : all_data[i] = PageAt(PAGE_SIZE * (i - 1))
       /\ hist.nreq > 0 =>
            /\ hist.lastOffset = PAGE_SIZE * (hist.nreq - 1)
            /\ PageAt(hist.lastOffset).n < PAGE_SIZE => pc = "returned"
       /\ (pc = "returned" /\ dataset = 1700 /\ max_rows >= 1700) =>
            TotalRows(all_data) = 1700 /\ hist.nreq = 4

C6_Witness ==
    /\ hist.clean /\ pc = "returned" /\ dataset = 1700
    /\ TotalRows(all_data) = 1700 /\ hist.nreq = 4
    /\ all_data[4].n = 200

\* C7: a 401 makes the workbook call ensure_valid_token once and leaves the
\* offset and the rows alone; the request after a 401 is at the same offset;
\* and a run whose only failures are 401s, each followed by a 200, returns
\* what the run without failure returns.
C7_RetrySamePage ==
    /\ [][(routine = "workbook" /\ pc = "retry" /\ hist'.prev401)
            => /\ hist'.ensured = 1
               /\ offset' = offset /\ all_data' = all_data]_vars
    /\ [][(routine = "workbook" /\ pc = "retry" /\ hist.prev401)
            => hist'.lastOffset = hist.lastOffset]_vars
    /\ []((routine = "workbook" /\ pc = "returned" /\ hist.authOnly /\ ~hist.prev401)
            => all_data = CleanRun(0, <<>>))

\* a run over 1700 rows with a 401 on the way that returned them all
C7_Witness ==
    /\ routine = "workbook" /\ pc = "returned"
    /\ hist.authOnly /\ ~hist.clean /\ ~hist.prev401
    /\ dataset = 1700 /\ TotalRows(all_data) = 1700 /\ Len(all_data) = 4

\* C8: when every attempt at the present offset failed with 429, a status >=
\* 500 or a timeout, at most max_retries requests are made there, the third
\* ends the run, which returns without raising exactly the pages received at
\* the offsets before.
C8_PartialResult ==
    (routine = "workbook" /\ hist.attempts > 0 /\ hist.transientOnly) =>
       /\ hist.attempts <= MAX_RETRIES
       /\ hist.attempts = MAX_RETRIES <=> pc = "returned"
       /\ pc # "raised"
       /\ hist.lastOffset = offset
       /\ all_data = hist.received
       /\ \A i \in DOMAIN all_data : all_data[i].off < offset
       /\ TotalRows(all_data) = offset

\* three failures on the second page: the first page is returned
C8_Witness ==
    /\ routine = "workbook" /\ pc = "returned"
    /\ hist.transientOnly /\ hist.attempts = MAX_RETRIES
    /\ offset = PAGE_SIZE /\ Len(all_data) = 1 /\ TotalRows(all_data) = PAGE_SIZE

\* the rows of the pages held that were asked for at offset off or later
RECURSIVE RowsFrom(_, _)
RowsFrom(pages, off) ==
    IF pages = <<>> THEN 0
    ELSE (IF Head(pages).off >= off THEN Head(pages).n ELSE 0) + RowsFrom(Tail(pages), off)

\* the step is the head of the loop going on to a page
StartsPage == pc = "loop" /\ TotalRows(all_data) < max_rows /\ pc' # "raised"

\* C19: in both routines the head of the loop calls ensure_valid_token before
\* the request of a page exactly when the offset of the page is a positive
\* multiple of 20,000: a request at such an offset follows the validation at
\* that offset, no validation of the kind is made at another offset, and no
\* more than 20,000 rows are held from the requests since the last one (or
\* since the start of the fetch).
C19_ProactiveEvery20000 ==
    /\ [][StartsPage
            => /\ hist'.proactive = (IF offset > 0 /\ offset % 20000 = 0 THEN 1 ELSE 0)
               /\ hist'.proactive = 1 => hist'.validatedAt = offset /\ hist'.ensured >= 1
               /\ hist'.proactive = 0 => hist'.validatedAt = hist.validatedAt
               /\ routine = "workbook" => hist'.nreq = hist.nreq]_vars
    /\ [][hist'.validatedAt # hist.validatedAt => StartsPage]_vars
    /\ [](/\ hist.validatedAt % 20000 = 0
          /\ (hist.nreq > 0 /\ hist.lastOffset > 0 /\ hist.lastOffset % 20000 = 0)
               => hist.validatedAt = hist.lastOffset
          /\ hist.nreq > 0 => hist.lastOffset - hist.validatedAt < 20000
          /\ RowsFrom(all_data, hist.validatedAt) <= 20000)

\* C19 (witness): a fetch validated at offset 20,000 and again at 40,000 and
\* holds the rows of the page it then asked for.
C19_Witness ==
    /\ hist.validatedAt = 40000 /\ hist.lastOffset = 40000
    /\ RowsFrom(all_data, 40000) > 0
    /\ RowsFrom(all_data, 20000) - RowsFrom(all_data, 40000) = 20000

\* C29: the list that a paginated fetch returns holds at most max_rows rows.
C29_AtMostMaxRows ==
    pc = "returned" => TotalRows(all_data) <= max_rows

----------------------------------------------------------------------------
(* src/datarails_mcp/client.py: DatarailsClient *)

FIELD_LIMIT == 5

Tables == {"t1"}

\* BrowserAuth.needs_auth_response(): error, login_url, extraction_js,
\* instructions
needs_auth_response == Result("auth_required", "authentication_required", TRUE, 0, <<>>)

\* {"error": msg}
ErrorResult(msg) == Result("error", msg, FALSE, 0, <<>>)

\* {"error": "API error: <code>", "details": response.text}
ApiError(code) == Result("api_error", "API error", FALSE, code, <<>>)

\* response.json() of a body that is a dict with 'data' ("rows") or a dict
\* with a non-empty 'error' ("error")
JsonResult(body) ==
    Result("json", IF body = "error" THEN "error of the server" ELSE "", FALSE, 0, <<>>)

\* what the data endpoints answer to the client. The body of a 200 is JSON
\* with 'data' ("rows"), JSON with a non-empty 'error' ("error"), text that
\* is no JSON ("unparsable": json.JSONDecodeError), or bytes that are no
\* UTF-8 ("bad_encoding": decoding them raises UnicodeDecodeError, a
\* ValueError that is no JSONDecodeError)
ClientAnswers ==
    {DataStatus(200, b) : b \in {"rows", "error", "unparsable", "bad_encoding"}}
    \cup {DataStatus(c, "none") : c \in {401, 404, 500}}
    \cup {DataFailure(k) : k \in {"timeout", "connect_error"}}

ClientAnswerKind(ans) ==
    IF ans.kind # "status" THEN ans.kind
    ELSE IF ans.code = 401 THEN "401"
    ELSE IF ans.code >= 400 THEN "error_status"
    ELSE ans.body

\* the entry of _request in the trace of an operation: whether it sent its
\* data request, what the endpoint answered, and the shape of its result
RequestCall(result, sent, answer) ==
    [fn |-> "_request", ret |-> result.error = "", raised |-> result = NoResult,
     sent |-> sent, answer |-> answer, out |-> result.shape]

Response(a, result, raised, calls) ==
    [auth |-> a, result |-> result, raised |-> raised, calls |-> calls]

\* the part of _request after the token was ensured: the request and the
\* handling of its answer; the result NoResult stands for an exception that
\* no except clause of _request catches
request_send(a, ans) ==
    IF ans.kind = "timeout" THEN [auth |-> a, result |-> ErrorResult("Request timed out")]
    ELSE IF ans.kind # "status" THEN [auth |-> a, result |-> ErrorResult("Request failed")]
    ELSE IF ans.code = 401
         THEN IF a.cls = "BrowserAuth"
              THEN [auth |-> clear_cookies(a), result |-> needs_auth_response]
              ELSE [auth |-> a, result |-> ErrorResult("Authentication expired")]
    ELSE IF ans.code >= 400 THEN [auth |-> a, result |-> ApiError(ans.code)]
    ELSE IF ans.body = "unparsable"
         THEN [auth |-> a, result |-> ErrorResult("Invalid response from server")]
    ELSE IF ans.body = "bad_encoding" THEN [auth |-> a, result |-> NoResult]
    ELSE [auth |-> a, result |-> JsonResult(ans.body)]

\* the part of _request after ensure_valid_token returned o: the early
\* return when it failed, else the request and the handling of its answer
request_ensured(a, o, ans) ==
    IF o.raised THEN Response(o.auth, NoResult, TRUE, o.calls)
    ELSE IF ~o.ret
         THEN Response(o.auth,
                       IF a.cls = "BrowserAuth" THEN needs_auth_response
                       ELSE ErrorResult("Failed to obtain access token"),
                       FALSE,
                       Append(o.calls,
                              RequestCall(IF a.cls = "BrowserAuth" THEN needs_auth_response
                                          ELSE ErrorResult("Failed to obtain access token"),
                                          FALSE, "none")))
         ELSE Response(request_send(o.auth, ans).auth, request_send(o.auth, ans).result,
                       request_send(o.auth, ans).result = NoResult,
                       Append(o.calls,
                              RequestCall(request_send(o.auth, ans).result, TRUE,
                                          ClientAnswerKind(ans))))

\* DatarailsClient._request at time t; refreshAns and fetchAns are what the
\* token endpoints answer if asked, ans what the data endpoint answers
request(a, t, refreshAns, fetchAns, ans) ==
    IF ~auth_is_authenticated(a)
    THEN IF a.cls = "BrowserAuth"
         THEN Response(a, needs_auth_response, FALSE,
                       <<RequestCall(needs_auth_response, FALSE, "none")>>)
         ELSE Response(a, ErrorResult("Authentication required"), FALSE,
                       <<RequestCall(ErrorResult("Authentication required"), FALSE, "none")>>)
    ELSE request_ensured(a, auth_ensure_valid_token(a, t, refreshAns, fetchAns), ans)

\* _format_response: a dict with a non-empty 'error' is dumped whole, of any
\* other the data
format_response(r) == IF r.error # "" THEN r ELSE Result("data", "", FALSE, 0, <<>>)

\* what an operation of the client did: the handler and the cache after it,
\* the dict it dumped, and its calls
Done(a, cache, result, raised, calls) ==
    [auth |-> a, cache |-> cache, result |-> result, raised |-> raised, calls |-> calls]

\* return self._format_response(result), result being what _request gave
formatted(cache, r, calls) ==
    Done(r.auth, cache, IF r.raised THEN NoResult ELSE format_response(r.result),
         r.raised, calls \o r.calls)

\* result = await self._request(...); return self._format_response(result)
request_and_format(a, cache, t, refreshAns, fetchAns, ans) ==
    formatted(cache, request(a, t, refreshAns, fetchAns, ans), <<>>)

list_tables(a, cache, t, refreshAns, fetchAns, ans) ==
    request_and_format(a, cache, t, refreshAns, fetchAns, ans)

get_filtered(a, cache, t, refreshAns, fetchAns, ans) ==
    request_and_format(a, cache, t, refreshAns, fetchAns, ans)

get_sample(a, cache, t, refreshAns, fetchAns, ans) ==
    request_and_format(a, cache, t, refreshAns, fetchAns, ans)

execute_query(a, cache, t, refreshAns, fetchAns, ans) ==
    request_and_format(a, cache, t, refreshAns, fetchAns, ans)

aggregate(a, cache, t, refreshAns, fetchAns, ans) ==
    request_and_format(a, cache, t, refreshAns, fetchAns, ans)

\* get_schema after its request returned r: a result without 'error' is
\* cached and dumped
get_schema_result(cache, table_id, r) ==
    IF r.raised THEN Done(r.auth, cache, NoResult, TRUE, r.calls)
    ELSE IF r.result.error = ""
         THEN Done(r.auth, cache \cup {table_id}, Result("schema", "", FALSE, 0, <<>>),
                   FALSE, r.calls)
         ELSE Done(r.auth, cache, format_response(r.result), FALSE, r.calls)

get_schema(a, cache, t, table_id, refreshAns, fetchAns, ans) ==
    IF table_id \in cache
    THEN Done(a, cache, Result("schema", "", FALSE, 0, <<>>), FALSE, <<>>)
    ELSE get_schema_result(cache, table_id, request(a, t, refreshAns, fetchAns, ans))

\* get_distinct_values after its request returned r
get_distinct_values_result(cache, r) ==
    IF r.raised THEN Done(r.auth, cache, NoResult, TRUE, r.calls)
    ELSE IF r.result.error = ""
         THEN Done(r.auth, cache, Result("values", "", FALSE, 0, <<>>), FALSE, r.calls)
         ELSE Done(r.auth, cache, format_response(r.result), FALSE, r.calls)

get_distinct_values(a, cache, t, refreshAns, fetchAns, ans) ==
    get_distinct_values_result(cache, request(a, t, refreshAns, fetchAns, ans))

\* profile_summary after its count request returned r2, whose result is not
\* looked at
profile_summary_result(cache, calls, r2) ==
    Done(r2.auth, cache,
         IF r2.raised THEN NoResult ELSE Result("summary", "", FALSE, 0, <<>>),
         r2.raised, calls \o r2.calls)

\* profile_summary after its schema request returned r1
profile_summary_schema(cache, t, r1, refreshAns, fetchAns, countAns) ==
    IF r1.raised THEN Done(r1.auth, cache, NoResult, TRUE, r1.calls)
    ELSE IF r1.result.error # ""
         THEN Done(r1.auth, cache, format_response(r1.result), FALSE, r1.calls)
         ELSE profile_summary_result(cache, r1.calls,
                                     request(r1.auth, t, refreshAns, fetchAns, countAns))

profile_summary(a, cache, t, refreshAns, fetchAns, schemaAns, countAns) ==
    profile_summary_schema(cache, t, request(a, t, refreshAns, fetchAns, schemaAns),
                           refreshAns, fetchAns, countAns)

\* the schema request of profile_numeric and profile_categorical, made when
\* no fields are passed
schema_if_no_fields(a, t, fields, refreshAns, fetchAns, schemaAns) ==
    IF fields = 0 THEN request(a, t, refreshAns, fetchAns, schemaAns)
    ELSE Response(a, JsonResult("rows"), FALSE, <<>>)

\* profile_numeric from the schema on: n is the number of fields
profile_numeric_fields(cache, t, r1, n, refreshAns, fetchAns, aggAns) ==
    IF r1.raised THEN Done(r1.auth, cache, NoResult, TRUE, r1.calls)
    ELSE IF r1.result.error # ""
         THEN Done(r1.auth, cache, format_response(r1.result), FALSE, r1.calls)
    ELSE IF n = 0
         THEN Done(r1.auth, cache, Result("message", "", FALSE, 0, <<>>), FALSE, r1.calls)
    ELSE formatted(cache, request(r1.auth, t, refreshAns, fetchAns, aggAns), r1.calls)

\* fields is the number of fields passed, inSchema the number of fields of
\* the wanted type that the schema of the table names
profile_numeric(a, cache, t, fields, inSchema, refreshAns, fetchAns, schemaAns, aggAns) ==
    profile_numeric_fields(cache, t,
                           schema_if_no_fields(a, t, fields, refreshAns, fetchAns, schemaAns),
                           IF fields = 0 THEN inSchema ELSE fields,
                           refreshAns, fetchAns, aggAns)

\* results[field] after the request for the field returned r: the values,
\* or {"error": distinct_result.get("error")}
field_result(d, r) ==
    Done(r.auth, d.cache,
         IF r.raised THEN NoResult
         ELSE [d.result EXCEPT !.per_field = Append(@, r.result.error)],
         r.raised, d.calls \o r.calls)

\* the loop of profile_categorical over the fields left, one request each
RECURSIVE distinct_loop(_, _, _, _, _, _)
distinct_loop(d, t, refreshAns, fetchAns, answers, left) ==
    IF left = 0 \/ d.raised THEN d
    ELSE distinct_loop(
             field_result(d, request(d.auth, t, refreshAns, fetchAns, Head(answers))),
             t, refreshAns, fetchAns, Tail(answers), left - 1)

\* profile_categorical from the schema on: n is the number of fields
profile_categorical_fields(cache, t, r1, n, refreshAns, fetchAns, answers) ==
    IF r1.raised THEN Done(r1.auth, cache, NoResult, TRUE, r1.calls)
    ELSE IF r1.result.error # ""
         THEN Done(r1.auth, cache, format_response(r1.result), FALSE, r1.calls)
    ELSE IF n = 0
         THEN Done(r1.auth, cache, Result("message", "", FALSE, 0, <<>>), FALSE, r1.calls)
    ELSE distinct_loop(
             Done(r1.auth, cache, Result("per_field", "", FALSE, 0, <<>>), FALSE, r1.calls),
             t, refreshAns, fetchAns, answers, Min(n, FIELD_LIMIT))

profile_categorical(a, cache, t, fields, inSchema, refreshAns, fetchAns, schemaAns, answers) ==
    profile_categorical_fields(cache, t,
                               schema_if_no_fields(a, t, fields, refreshAns, fetchAns, schemaAns),
                               IF fields = 0 THEN inSchema ELSE fields,
                               refreshAns, fetchAns, answers)

----------------------------------------------------------------------------
(* The client: its operations on one handler *)

\* the token answers worth telling apart for an operation at time t
ClientTokenPairs(a, t) ==
    IF ~auth_is_authenticated(a) THEN {<<AnyAnswer, AnyAnswer>>}
    ELSE {p \in (IF AsksRefresh(a, t) THEN FetchTokenAnswers ELSE {AnyAnswer})
                    \X FetchTokenAnswers :
            p[2] = AnyAnswer \/ AsksFetch(a, t, p[1])}

\* what the endpoint of the distinct values answers in the loop of
\* profile_categorical
FieldAnswers ==
    {DataStatus(200, "rows"), DataStatus(401, "none"), DataFailure("timeout")}

ClientInit ==
    /\ auth \in {BrowserAuth_init(s[1], s[2]) : s \in StoredSessions}
                \cup {EnvAuth_init(s[1], s[2], j) :
                        s \in StoredSessions, j \in {NoneTok, Jwt(3, "exp", REFRESH_BUFFER_SECONDS + 2)}}
    /\ StoreOf(auth)
    /\ now = 0
    /\ schema_cache = {}
    /\ last = Last("init", FALSE, FALSE, <<>>, NoResult)
    /\ FetchIdle
    /\ FanIdle

\* _request took its 401 branch on a BrowserAuth: self.auth.clear_cookies()
ClearedCookies(a, calls) ==
    a.cls = "BrowserAuth" /\ \E c \in Range(calls) : c.fn = "_request" /\ c.answer = "401"

\* an operation of the client returned; the clear_cookies() of its 401
\* branch is clear_session(), which also removes the persisted session
ClientStep(op, d) ==
    /\ auth' = d.auth
    /\ schema_cache' = d.cache
    /\ last' = Last(op, d.result.error = "", d.raised, d.calls, d.result)
    /\ keyring' = IF ClearedCookies(auth, d.calls)
                  THEN clear_store(keyring, fallback_file, env, backend).keyring
                  ELSE keyring
    /\ fallback_file' = IF ClearedCookies(auth, d.calls)
                        THEN clear_store(keyring, fallback_file, env, backend).file
                        ELSE fallback_file
    /\ pending' = IF ClearedCookies(auth, d.calls)
                  THEN after_call(pending, env, abandoned_thread(env, NoEntry, backend))
                  ELSE pending
    /\ UNCHANGED <<now, env, backend>>
    /\ UNCHANGED <<fetchVars, fan, processVars>>

\* the answers worth telling apart: an endpoint that is not asked has one
DataAnswersIf(asked, answers) == IF asked THEN answers ELSE {DataFailure("timeout")}

\* the answers to the one request of an operation
OneAnswer(a) == DataAnswersIf(auth_is_authenticated(a), ClientAnswers)

\* the operation goes on after a request with this answer
GoesOn(a, ans) == auth_is_authenticated(a) /\ ans = DataStatus(200, "rows")

ListTables ==
    \E p \in ClientTokenPairs(auth, now), ans \in OneAnswer(auth) :
        ClientStep("list_tables", list_tables(auth, schema_cache, now, p[1], p[2], ans))

GetSchema ==
    \E table_id \in Tables, p \in ClientTokenPairs(auth, now), ans \in OneAnswer(auth) :
        ClientStep("get_schema",
                   get_schema(auth, schema_cache, now, table_id, p[1], p[2], ans))

GetDistinctValues ==
    \E p \in ClientTokenPairs(auth, now), ans \in OneAnswer(auth) :
        ClientStep("get_distinct_values",
                   get_distinct_values(auth, schema_cache, now, p[1], p[2], ans))

GetFiltered ==
    \E p \in ClientTokenPairs(auth, now), ans \in OneAnswer(auth) :
        ClientStep("get_filtered", get_filtered(auth, schema_cache, now, p[1], p[2], ans))

GetSample ==
    \E p \in ClientTokenPairs(auth, now), ans \in OneAnswer(auth) :
        ClientStep("get_sample", get_sample(auth, schema_cache, now, p[1], p[2], ans))

ExecuteQuery ==
    \E p \in ClientTokenPairs(auth, now), ans \in OneAnswer(auth) :
        ClientStep("execute_query", execute_query(auth, schema_cache, now, p[1], p[2], ans))

Aggregate ==
    \E p \in ClientTokenPairs(auth, now), ans \in OneAnswer(auth) :
        ClientStep("aggregate", aggregate(auth, schema_cache, now, p[1], p[2], ans))

ProfileSummary ==
    \E p \in ClientTokenPairs(auth, now), schemaAns \in OneAnswer(auth) :
      \E countAns \in DataAnswersIf(GoesOn(auth, schemaAns), ClientAnswers) :
        ClientStep("profile_summary",
                   profile_summary(auth, schema_cache, now, p[1], p[2], schemaAns, countAns))

\* the schema is asked for only when no fields are passed: its answer, and
\* the number of fields of the wanted type it names
SchemaInputs(a, fields) ==
    IF fields = 0
    THEN {<<ans, 0>> : ans \in OneAnswer(a)}
         \cup {<<DataStatus(200, "rows"), n>> : n \in 1 .. MaxFields}
    ELSE {<<DataStatus(200, "rows"), 0>>}

\* the number of fields the operation goes on with
FieldsOf(fields, s) == IF fields = 0 THEN s[2] ELSE fields

ProfileNumeric ==
    \E p \in ClientTokenPairs(auth, now), fields \in 0 .. MaxFields :
      \E s \in SchemaInputs(auth, fields) :
        \E aggAns \in DataAnswersIf(GoesOn(auth, s[1]) /\ FieldsOf(fields, s) > 0,
                                    ClientAnswers) :
          ClientStep("profile_numeric",
                     profile_numeric(auth, schema_cache, now, fields, s[2], p[1], p[2],
                                     s[1], aggAns))

ProfileCategorical ==
    \E p \in ClientTokenPairs(auth, now), fields \in 0 .. MaxFields :
      \E s \in SchemaInputs(auth, fields) :
        \E answers \in [1 .. FieldsOf(fields, s) ->
                          DataAnswersIf(GoesOn(auth, s[1]), FieldAnswers)] :
          ClientStep("profile_categorical",
                     profile_categorical(auth, schema_cache, now, fields, s[2], p[1], p[2],
                                         s[1], answers))

ClientNext ==
    \/ ListTables
    \/ GetSchema
    \/ GetDistinctValues
    \/ GetFiltered
    \/ GetSample
    \/ ExecuteQuery
    \/ Aggregate
    \/ ProfileSummary
    \/ ProfileNumeric
    \/ ProfileCategorical
    \/ SetSessionCookies
    \/ ClearSession
    \/ Tick

ClientSpec == ClientInit /\ [][ClientNext]_vars

----------------------------------------------------------------------------
(* Claims about the client *)

ClientOps ==
    {"list_tables", "get_schema", "get_distinct_values", "get_filtered", "get_sample",
     "execute_query", "aggregate", "profile_summary", "profile_numeric",
     "profile_categorical"}

\* no call of the step sent a request, to a token endpoint or a data endpoint
NothingSent(calls) == \A c \in Range(calls) : ~c.sent

\* the calls of _request in a trace
RequestsOf(calls) == SelectSeq(calls, LAMBDA c : c.fn = "_request")

\* C9 as stated, for a client that wraps a BrowserAuth handler: an operation
\* called while is_authenticated() is false returns the authentication-required
\* result with its login URL and instructions, raises nothing and sends no
\* request.
C9_AuthRequired ==
    [][(last'.op \in ClientOps /\ auth.cls = "BrowserAuth" /\ ~auth_is_authenticated(auth))
         => /\ ~last'.raised
            /\ last'.result.error = "authentication_required"
            /\ last'.result.login_url /\ last'.result.instructions
            /\ NothingSent(last'.calls)]_vars

\* a 401 among the data requests of the step
Got401(calls) == \E c \in Range(calls) : c.fn = "_request" /\ c.answer = "401"

Cleared(a) ==
    /\ a.access_token = NoneTok /\ a.refresh_token = NoneTok
    /\ a.session_id = NoneStr /\ a.csrf_token = NoneStr

\* from a 401 on, every _request of the trace returns authentication-required
\* and nothing more is sent
AuthRequiredFrom401(calls) ==
    \A i \in DOMAIN calls :
       (calls[i].fn = "_request" /\ calls[i].answer = "401") =>
          /\ calls[i].out = "auth_required"
          /\ \A j \in DOMAIN calls :
                j > i => /\ ~calls[j].sent
                         /\ calls[j].fn = "_request" => calls[j].out = "auth_required"

SimpleOps == {"list_tables", "get_filtered", "get_sample", "execute_query", "aggregate"}

\* the failing answers other than 401
FailingKinds == {"error_status", "timeout", "connect_error", "unparsable", "bad_encoding"}

\* the data request of the step was sent and failed in one of these ways
FailedWith(calls, kinds) ==
    \E c \in Range(calls) : c.fn = "_request" /\ c.sent /\ c.answer \in kinds

\* the number of data requests of the step
DataRequests(calls) == Len(SelectSeq(calls, LAMBDA c : c.fn = "_request" /\ c.sent))

\* C11 as stated: when the data request of _request fails with a status >=
\* 400 other than 401, a timeout, a connection error or an undecodable body,
\* _request raises nothing and returns an error result (with the status code
\* for a status >= 400), and it sent exactly one data request.
C11_StructuredError ==
    [][(last'.op \in SimpleOps /\ FailedWith(last'.calls, FailingKinds))
         => /\ ~last'.raised
            /\ last'.result.error # ""
            /\ FailedWith(last'.calls, {"error_status"})
                 => last'.result.shape = "api_error" /\ last'.result.status >= 400
            /\ DataRequests(last'.calls) = 1]_vars

----------------------------------------------------------------------------
(* The persisted session: handlers made, logged in and logged out for the
   environments, over a keyring backend that comes and goes *)

\* BrowserAuth(env): no session, no tokens, then _load_session()
BrowserAuth_new(l) == BrowserAuth_init(l.session_id, l.csrf_token)

InitialEntries == {NoEntry, SessionEntry("s1", "c1"), SessionEntry("s1", NoneStr)}

\* the files found at the start: none, one that does not parse, and the JSON
\* files with or without an entry per environment and with or without a
\* session at their top level
InitialFiles ==
    {NoFile, File("garbage", [e \in Envs |-> NoEntry], NoEntry)}
    \cup {File("json", entries, top) :
            entries \in [Envs -> {NoEntry, SessionEntry("s1", "c1")}],
            top \in {NoEntry, SessionEntry("s2", "c1")}}

StoreInit ==
    /\ env \in Envs
    /\ backend \in Backends
    /\ keyring \in [Envs -> InitialEntries]
    /\ fallback_file \in InitialFiles
    /\ pending = {}
    /\ ProcessIdle
    /\ auth = BrowserAuth_new(load_session(keyring, fallback_file, env, backend))
    /\ now = 0
    /\ schema_cache = {}
    /\ last = Last("init", FALSE, FALSE, <<>>, NoResult)
    /\ FetchIdle
    /\ FanIdle

\* a handler made for environment e, its _load_session() having returned l
Loaded(e, l) ==
    /\ env' = e
    /\ auth' = BrowserAuth_new(l)
    /\ last' = Last("BrowserAuth", l.returned, FALSE, l.calls, NoResult)

\* get_auth(env), BrowserAuth(env): a new handler for an environment
NewBrowserAuth ==
    /\ \E e \in Envs : Loaded(e, load_session(keyring, fallback_file, e, backend))
    /\ UNCHANGED <<keyring, fallback_file, backend, pending, now, schema_cache>>
    /\ UNCHANGED <<fetchVars, fan, processVars>>

\* the keyring backend of the system changes what it does with a call
BackendChanges ==
    /\ \E b \in Backends \ {backend} : backend' = b
    /\ UNCHANGED <<env, keyring, fallback_file, pending>>
    /\ UNCHANGED authVars
    /\ UNCHANGED <<fetchVars, fan, processVars>>

\* the call of the backend that an abandoned thread has in flight returns:
\* the daemon thread of a wrapper that gave up is not stopped, and its
\* set_password or delete_password takes effect when the backend answers
AbandonedThreadRuns ==
    /\ \E w \in pending :
          /\ keyring' = [keyring EXCEPT ![w.env] = w.value]
          /\ pending' = pending \ {w}
    /\ last' = Last("keyring_thread", TRUE, FALSE, <<>>, NoResult)
    /\ UNCHANGED <<env, fallback_file, backend>>
    /\ UNCHANGED <<auth, now, schema_cache>>
    /\ UNCHANGED <<fetchVars, fan, processVars>>

StoreNext ==
    \/ NewBrowserAuth
    \/ SetSessionCookies
    \/ ClearSession
    \/ BackendChanges
    \/ AbandonedThreadRuns

StoreSpec == StoreInit /\ [][StoreNext]_vars

----------------------------------------------------------------------------
(* Claims about the persisted session *)

\* the step is the making of a handler for the environment of the call
\* that came last
LoadsAfter(op) == last.op = op /\ last'.op = "BrowserAuth" /\ env' = env

\* C12: a session saved by set_session_cookies is the session that a new
\* BrowserAuth of the same environment loads next, whatever the keyring
\* backend does at the save and at the load and whatever was stored before.
C12_RoundTrip ==
    [][LoadsAfter("set_session_cookies")
         => /\ auth'.session_id = auth.session_id
            /\ auth'.csrf_token = auth.csrf_token]_vars

\* the pair that a handler holds, as an entry of the store
HeldEntry(a) == SessionEntry(a.session_id, a.csrf_token)

\* what is stored under environment e: its keyring slot and its entry of
\* the fallback file
StoredUnder(kr, file, e) == {kr[e]} \cup (IF file.state = "json" THEN {file.entries[e]} ELSE {})

\* C13: a save or a clear for an environment leaves the keyring slot and the
\* fallback-file entry of every other environment as they were, and a new
\* handler of an environment holds a session only if that pair is stored
\* under its own environment, whatever else the store holds.
C13_Isolation ==
    [][/\ last'.op \in {"set_session_cookies", "clear_session"}
            => \A e \in Envs \ {env} :
                  /\ keyring'[e] = keyring[e]
                  /\ fallback_file'.entries[e] = fallback_file.entries[e]
       /\ (last'.op = "BrowserAuth" /\ has_session(auth'))
            => HeldEntry(auth') \in StoredUnder(keyring, fallback_file, env')]_vars

\* C14: after clear_session a new BrowserAuth of the same environment holds
\* no session, whatever the keyring backend does at the clear and at the
\* load.
C14_ClearThenLoad ==
    [][LoadsAfter("clear_session") => ~has_session(auth')]_vars

\* the call that came last worked on the store through the keyring wrapper
\* fn, and the backend did b with it
StoreCallOf(l, op, fn, b) ==
    l.op = op /\ l.calls # <<>> /\ l.calls[1].fn = fn /\ l.calls[1].answer = b

\* C15: a keyring backend call that never returns does not block: the
\* wrapper returns None or False after its timeout, so the load, the save and
\* the clear return, and with the outcome of a keyring that is unavailable:
\* the load takes what the fallback file gives, the save writes the fallback
\* file and the clear removes the entry of the file; the keyring is as before.
C15_NeverBlocks ==
    [][/\ last'.op \in {"BrowserAuth", "set_session_cookies", "clear_session"} => last'.ret
       /\ StoreCallOf(last', "BrowserAuth", "keyring_get", "hang")
            => /\ ~last'.calls[1].ret
               /\ auth' = BrowserAuth_new(load_from_file(NoneStr, NoneStr, fallback_file, env'))
               /\ \E c \in Range(last'.calls) : c.fn = "file_read"
               /\ auth' = BrowserAuth_new(load_session(keyring, fallback_file, env', "unavailable"))
       /\ StoreCallOf(last', "set_session_cookies", "keyring_set", "hang")
            => /\ ~last'.calls[1].ret
               /\ keyring' = keyring
               /\ \E c \in Range(last'.calls) : c.fn = "file_write"
               /\ fallback_file' = save_to_fallback_file(fallback_file, env,
                                        auth'.session_id, auth'.csrf_token)
       /\ StoreCallOf(last', "clear_session", "keyring_delete", "hang")
            => /\ ~last'.calls[1].ret
               /\ keyring' = keyring
               /\ fallback_file' = pop_from_fallback_file(fallback_file, env)
               /\ ~has_session(auth')]_vars

\* C15 (witness): a save over a backend that hangs returned, and the
\* fallback file holds the pair while the keyring slot holds an older one.
C15_Witness ==
    /\ StoreCallOf(last, "set_session_cookies", "keyring_set", "hang")
    /\ last.ret
    /\ fallback_file.state = "json"
    /\ fallback_file.entries[env] = HeldEntry(auth)
    /\ keyring[env] \notin {NoEntry, HeldEntry(auth)}

\* C27: a keyring write abandoned at its timeout has no later effect: once a
\* later save or clear of the environment has returned, the thread left
\* behind does not change the slot of the environment any more.
C27_NoLateWrite ==
    [][\A w \in pending \ pending' :
          (last'.op = "keyring_thread" /\ w.value # NoEntry /\ w.superseded)
            => keyring'[w.env] = keyring[w.env]]_vars

\* C17: the persisted session of an environment (its keyring slot and its
\* entry of the fallback file) is removed by clear_session only, and no
\* outcome of an operation of the client, with the token refresh or refetch
\* it makes, removes or alters it.
C17_OnlyLogoutRemoves ==
    [][/\ last'.op \in ClientOps
            => keyring' = keyring /\ fallback_file' = fallback_file
       /\ \A e \in Envs :
             ((keyring[e] # NoEntry /\ keyring'[e] = NoEntry)
              \/ (fallback_file.entries[e] # NoEntry /\ fallback_file'.entries[e] = NoEntry))
               => last'.op = "clear_session"]_vars

----------------------------------------------------------------------------
(* scripts/intelligence_workbook.py: fetch_all_data, the four fetches that
   asyncio.gather runs on one event loop. A fetch runs until it awaits the
   answer of a request; the answers come in any order. *)

\* what the aggregate endpoint answers to a fetch: records, a 401, a failure
\* that the client turns into an error result, or a body whose decoding raises
FanAnswers ==
    {DataStatus(200, "rows"), DataStatus(401, "none"), DataFailure("timeout"),
     DataStatus(200, "bad_encoding")}

\* the answers of one run: to the aggregate query of each fetch, to the second
\* aggregate query of the P&L fetch, and what _fetch_raw_data_paginated
\* returns to the P&L and KPI fetches when they fall back to it
Plans ==
    [pnl : FanAnswers, pnl_l2 : {DataStatus(200, "rows")}, pnl_raw : {"rows", "empty"},
     kpi : FanAnswers, kpi_raw : {"rows", "empty"},
     vendor : FanAnswers, cost_center : FanAnswers]

FanInit ==
    /\ auth = BrowserAuth_init("s1", "c1")
    /\ StoreOf(auth)
    /\ now = 0
    /\ schema_cache = {}
    /\ last = Last("init", FALSE, FALSE, <<>>, NoResult)
    /\ FetchIdle
    /\ fan \in {FanState([t \in Tasks |-> "idle"], p) : p \in Plans}

\* _parse_api_response(await self.client.aggregate(...)): the records of a
\* result, [] for a dict with 'error'
parse_api_response(r) == IF r.error = "" THEN "rows" ELSE "empty"

\* await self.client.aggregate(...) raised
aggregate_raised(r) == r = NoResult

\* self.client.aggregate(...) of handler a gets as far as its data request
sends_request(a, t) ==
    \E c \in Range(request(a, t, AnyAnswer, AnyAnswer, DataFailure("timeout")).calls) :
        c.fn = "_request" /\ c.sent

\* fetch_all_data after ensure_valid_token returned o: it returns when that
\* failed; else gather starts the four fetches, and each runs up to the
\* request of its aggregate query
Started(o) ==
    /\ auth' = o.auth
    /\ fan' = [fan EXCEPT !.pc = [t \in Tasks |-> IF o.ret THEN "aggregate" ELSE "done"]]

FanStart ==
    /\ \A t \in Tasks : fan.pc[t] = "idle"
    /\ auth_is_authenticated(auth)
    /\ \E fetchAns \in FetchTokenAnswers :
          Started(auth_ensure_valid_token(auth, now, AnyAnswer, fetchAns))
    /\ UNCHANGED <<now, schema_cache, last>>
    /\ UNCHANGED <<fetchVars, processVars>>
    /\ UNCHANGED storeVars

\* the handler and the store after _request handled the answer of a fetch:
\* on a 401 the clear_cookies() of the client clears the session of the
\* handler that the four fetches share
Answered(ans) ==
    /\ auth' = request_send(auth, ans).auth
    /\ keyring' = IF ans.kind = "status" /\ ans.code = 401 /\ auth.cls = "BrowserAuth"
                  THEN clear_store(keyring, fallback_file, env, backend).keyring
                  ELSE keyring
    /\ fallback_file' = IF ans.kind = "status" /\ ans.code = 401 /\ auth.cls = "BrowserAuth"
                        THEN clear_store(keyring, fallback_file, env, backend).file
                        ELSE fallback_file
    /\ pending' = IF ans.kind = "status" /\ ans.code = 401 /\ auth.cls = "BrowserAuth"
                  THEN after_call(pending, env, abandoned_thread(env, NoEntry, backend))
                  ELSE pending
    /\ UNCHANGED <<env, backend, now, schema_cache, last>>
    /\ UNCHANGED <<fetchVars, processVars>>

\* no request of the client is answered in the step
NotAnswered ==
    /\ UNCHANGED <<auth, now, schema_cache, last>>
    /\ UNCHANGED <<fetchVars, processVars>>
    /\ UNCHANGED storeVars

\* _fetch_pnl_aggregated from "# L2 Account breakdown" on, with handler a:
\* from self.pnl_data when it has records, else by an aggregate query, which
\* returns at once when the handler is not authenticated
PnlL2Begins(f, a) ==
    IF f.pnl_data = "rows"
    THEN [f EXCEPT !.aggregated_data["account_l2"] = "client_side", !.pc["pnl"] = "done"]
    ELSE IF sends_request(a, now)
         THEN [f EXCEPT !.pc["pnl"] = "aggregate_l2"]
         ELSE [f EXCEPT !.aggregated_data["account_l2"] = "empty", !.pc["pnl"] = "done"]

\* the except clause of _fetch_pnl_aggregated
PnlFailed(f) ==
    [f EXCEPT !.aggregated_data["monthly_by_account"] = "empty",
              !.aggregated_data["account_l2"] = "empty", !.pc["pnl"] = "done"]

\* _fetch_pnl_aggregated: its aggregate query got r
PnlAggregated(r) ==
    fan' = IF aggregate_raised(r.result) THEN PnlFailed(fan)
           ELSE IF parse_api_response(r.result) = "rows"
                THEN PnlL2Begins([fan EXCEPT !.aggregated_data["monthly_by_account"] = "rows"],
                                 r.auth)
                ELSE [fan EXCEPT !.pc["pnl"] = "paginated"]

PnlAggregate ==
    /\ fan.pc["pnl"] = "aggregate"
    /\ Answered(fan.plan.pnl)
    /\ PnlAggregated(request_send(auth, fan.plan.pnl))

\* _fetch_pnl_aggregated: _fetch_raw_data_paginated returned (its run is the
\* one of the paginated fetch; here it is what it returns)
PnlPaginated ==
    /\ fan.pc["pnl"] = "paginated"
    /\ fan' = IF fan.plan.pnl_raw = "rows"
              THEN PnlL2Begins([fan EXCEPT !.pnl_data = "rows",
                                           !.aggregated_data["monthly_by_account"] = "client_side"],
                               auth)
              ELSE PnlL2Begins([fan EXCEPT !.aggregated_data["monthly_by_account"] = "empty"],
                               auth)
    /\ NotAnswered

\* _fetch_pnl_aggregated: its second aggregate query got r
PnlL2Aggregated(r) ==
    fan' = IF aggregate_raised(r.result) THEN PnlFailed(fan)
           ELSE [fan EXCEPT !.aggregated_data["account_l2"] = parse_api_response(r.result),
                            !.pc["pnl"] = "done"]

PnlL2 ==
    /\ fan.pc["pnl"] = "aggregate_l2"
    /\ Answered(fan.plan.pnl_l2)
    /\ PnlL2Aggregated(request_send(auth, fan.plan.pnl_l2))

\* _fetch_kpi_data: its aggregate query got r
KpiAggregated(r) ==
    fan' = IF aggregate_raised(r.result)
           THEN [fan EXCEPT !.kpi_data = "empty", !.pc["kpi"] = "done"]
           ELSE IF parse_api_response(r.result) = "rows"
                THEN [fan EXCEPT !.kpi_data = "rows", !.pc["kpi"] = "done"]
                ELSE [fan EXCEPT !.kpi_data = "empty", !.pc["kpi"] = "paginated"]

KpiAggregate ==
    /\ fan.pc["kpi"] = "aggregate"
    /\ Answered(fan.plan.kpi)
    /\ KpiAggregated(request_send(auth, fan.plan.kpi))

\* _fetch_kpi_data: _fetch_raw_data_paginated returned
KpiPaginated ==
    /\ fan.pc["kpi"] = "paginated"
    /\ fan' = [fan EXCEPT !.kpi_data = fan.plan.kpi_raw, !.pc["kpi"] = "done"]
    /\ NotAnswered

\* what _fetch_vendor_data and _fetch_cost_center_data store after their
\* aggregate query got r: its records, or when it has none and self.pnl_data
\* has records, those aggregated on the client
stored_with_fallback(r, pnl_data) ==
    IF aggregate_raised(r.result) THEN "empty"
    ELSE IF parse_api_response(r.result) = "rows" THEN "rows"
    ELSE IF pnl_data = "rows" THEN "client_side"
    ELSE "empty"

VendorAggregate ==
    /\ fan.pc["vendor"] = "aggregate"
    /\ Answered(fan.plan.vendor)
    /\ fan' = [fan EXCEPT !.aggregated_data["vendor"] =
                              stored_with_fallback(request_send(auth, fan.plan.vendor),
                                                   fan.pnl_data),
                          !.pc["vendor"] = "done"]

CostCenterAggregate ==
    /\ fan.pc["cost_center"] = "aggregate"
    /\ Answered(fan.plan.cost_center)
    /\ fan' = [fan EXCEPT !.aggregated_data["cost_center"] =
                              stored_with_fallback(request_send(auth, fan.plan.cost_center),
                                                   fan.pnl_data),
                          !.pc["cost_center"] = "done"]

FanNext ==
    \/ FanStart
    \/ PnlAggregate
    \/ PnlPaginated
    \/ PnlL2
    \/ KpiAggregate
    \/ KpiPaginated
    \/ VendorAggregate
    \/ CostCenterAggregate

\* every request that a fetch awaits is answered or times out
FanSpec == FanInit /\ [][FanNext]_vars /\ WF_vars(FanNext)

----------------------------------------------------------------------------
(* Claims about the fan-out of fetch_all_data *)

\* gather returned after it started the four fetches
FanDone == \A t \in Tasks : fan.pc[t] = "done"
FanRan == FanDone /\ fan.aggregated_data["vendor"] # "unset"

\* what a fetch stores when it is the only one that runs, with the answers
\* of the plan: self.pnl_data is [] unless the fetch itself filled it, and the
\* handler is as fetch_all_data left it unless a 401 of the fetch itself
\* cleared it
AloneWithFallback(ans) ==
    IF ans = DataStatus(200, "rows") THEN "rows" ELSE "empty"

KpiAlone(p) ==
    IF p.kpi = DataStatus(200, "rows") THEN "rows"
    ELSE IF p.kpi = DataStatus(200, "bad_encoding") THEN "empty"
    ELSE p.kpi_raw

MonthlyAlone(p) ==
    IF p.pnl = DataStatus(200, "rows") THEN "rows"
    ELSE IF p.pnl = DataStatus(200, "bad_encoding") THEN "empty"
    ELSE IF p.pnl_raw = "rows" THEN "client_side" ELSE "empty"

AccountL2Alone(p) ==
    IF p.pnl = DataStatus(200, "rows") THEN "rows"
    ELSE IF p.pnl = DataStatus(200, "bad_encoding") THEN "empty"
    ELSE IF p.pnl_raw = "rows" THEN "client_side"
    ELSE IF p.pnl = DataStatus(401, "none") THEN "empty"
    ELSE "rows"

\* C20: the four fetches of the fan-out share no state that one writes and
\* another reads: when gather returned, what each has stored is what it stores
\* when it runs alone with the same answers, in every order of the answers and
\* whatever failed in the other three; and every fetch completes.
C20_Independent ==
    /\ [](FanRan =>
            /\ fan.aggregated_data["monthly_by_account"] = MonthlyAlone(fan.plan)
            /\ fan.aggregated_data["account_l2"] = AccountL2Alone(fan.plan)
            /\ fan.kpi_data = KpiAlone(fan.plan)
            /\ fan.aggregated_data["vendor"] = AloneWithFallback(fan.plan.vendor)
            /\ fan.aggregated_data["cost_center"] = AloneWithFallback(fan.plan.cost_center))
    /\ <>FanDone


----------------------------------------------------------------------------
(* constants.py: get_active_environment and set_active_environment, on the
   configurations that a process can find *)

\* the names passed to set_active_environment and found in the variable
EnvNames == Envs \cup {"staging"}

\* the dicts of environments.json: with or without the active selection, an
\* environments map, default_environment and a key of the user's own
Configs ==
    {Config(k \cup (IF a = NoneStr THEN {} ELSE {"active_environment"})
              \cup (IF m = {} THEN {} ELSE {"environments"})
              \cup (IF d = NoneStr THEN {} ELSE {"default_environment"}),
            a, m, d) :
       k \in {{}, {"custom"}},
       a \in {NoneStr} \cup EnvNames,
       m \in {{}, DEFAULT_ENVIRONMENTS, {<<"staging", "custom">>, <<"dev", "custom">>}},
       d \in {NoneStr, DEFAULT_ENV}}

ConfigFiles ==
    {NoConfigFile}
      \cup {ConfigFile(TRUE, st, w, EmptyConfig) : st \in {"missing", "garbage"}, w \in BOOLEAN}
      \cup {ConfigFile(TRUE, "json", w, c) : w \in BOOLEAN, c \in Configs}

ConfigInit ==
    /\ environ \in {Environ(n, NoneStr, NoneStr, NoneTok) : n \in {NoneStr, ""} \cup EnvNames}
    /\ config_file \in ConfigFiles
    /\ client = NoClient
    /\ diag = DiagState("idle", 0)
    /\ auth = BrowserAuth_init(NoneStr, NoneStr)
    /\ env = "dev" /\ backend = "ok" /\ pending = {}
    /\ keyring = [e \in Envs |-> NoEntry]
    /\ fallback_file = NoFile
    /\ now = 0
    /\ schema_cache = {}
    /\ last = Last("init", FALSE, FALSE, <<>>, NoResult)
    /\ FetchIdle
    /\ FanIdle

\* a call of constants.py for the trace: its argument and what it returned
ConfigCall(fn, ret, arg, out) ==
    [fn |-> fn, ret |-> ret, raised |-> FALSE, sent |-> FALSE, answer |-> arg, out |-> out]

\* set_active_environment(n) returned
SetActiveEnvironment ==
    /\ \E n \in EnvNames :
          /\ config_file' = set_active_environment(config_file, n).file
          /\ last' = Last("set_active_environment",
                          set_active_environment(config_file, n).ret, FALSE,
                          <<ConfigCall("set_active_environment",
                                       set_active_environment(config_file, n).ret, n, "")>>,
                          NoResult)
    /\ UNCHANGED <<environ, client, diag>>
    /\ UNCHANGED <<auth, now, schema_cache>>
    /\ UNCHANGED <<fetchVars, fan, storeVars>>

\* get_active_environment() returned
GetActiveEnvironment ==
    /\ last' = Last("get_active_environment", TRUE, FALSE,
                    <<ConfigCall("get_active_environment", TRUE, "",
                                 get_active_environment(environ.DATARAILS_ENV, config_file))>>,
                    NoResult)
    /\ UNCHANGED processVars
    /\ UNCHANGED <<auth, now, schema_cache>>
    /\ UNCHANGED <<fetchVars, fan, storeVars>>

ConfigNext ==
    \/ SetActiveEnvironment
    \/ GetActiveEnvironment

ConfigSpec == ConfigInit /\ [][ConfigNext]_vars

----------------------------------------------------------------------------
(* Claims about the active environment *)

\* the configuration on disk holds an active selection that can be read
PersistedActive(f) ==
    f.dir /\ f.state = "json" /\ "active_environment" \in f.config.keys

\* what the call that came last returned, and the argument it was given
Returned(l) == l.calls[1].out
Argument(l) == l.calls[1].answer

\* C21: get_active_environment returns the non-empty DATARAILS_ENV variable
\* when there is one, else the persisted active_environment when the
\* configuration has one, else "dev".
C21_Precedence ==
    [][last'.op = "get_active_environment"
         => Returned(last') =
              IF environ.DATARAILS_ENV \notin {NoneStr, ""} THEN environ.DATARAILS_ENV
              ELSE IF PersistedActive(config_file)
                   THEN config_file.config.active_environment
                   ELSE "dev"]_vars

\* C21 (witness): the three sources are set and differ, and the call
\* returned the variable.
C21_Witness ==
    /\ last.op = "get_active_environment"
    /\ environ.DATARAILS_ENV \notin {NoneStr, "", "dev"}
    /\ PersistedActive(config_file)
    /\ config_file.config.active_environment \notin {environ.DATARAILS_ENV, "dev"}
    /\ Returned(last) = environ.DATARAILS_ENV

\* the keys that the configuration had are kept by the step, and its
\* environments map and default_environment with them
KeepsStoredKeys ==
    /\ load_environments_config(config_file).keys
         \subseteq load_environments_config(config_file').keys
    /\ "environments" \in load_environments_config(config_file).keys
         => load_environments_config(config_file').environments
              = load_environments_config(config_file).environments
    /\ "default_environment" \in load_environments_config(config_file).keys
         => load_environments_config(config_file').default_environment
              = load_environments_config(config_file).default_environment

C23_TakesEffectUnsaved ==
    [][/\ (last'.op = "set_active_environment"
           /\ (~config_file.dir \/ ~config_file.writable)) => ~last'.ret
       /\ (/\ last.op = "set_active_environment" /\ ~last.ret
           /\ last'.op = "get_active_environment")
            => Returned(last') = Argument(last)]_vars

----------------------------------------------------------------------------
(* scripts/api_diagnostic.py: APIDiagnostic.test_data_pagination_full. A step
   is the head of a pass of its `while True` loop, up to the request that it
   awaits, or the rest of the pass with the answer to the request. *)

\* the safety limit of the loop and the number of errors it puts up with
DIAG_SAFETY_LIMIT == 100000
DIAG_MAX_ERRORS == 5

\* what _make_request returns: status 200 with the rows of the page, with no
\* body or with a body without rows, 401, another status, -1 after a timeout
DiagAnswers == {"rows", "no_body", "401", "500", "timeout"}

DiagDatasets == {0, 700, 1000, REAUTH_EVERY + 700, DIAG_SAFETY_LIMIT + 500}

DiagInit ==
    /\ diag \in {DiagState("loop", n) : n \in DiagDatasets}
    /\ environ = Environ(NoneStr, NoneStr, NoneStr, NoneTok)
    /\ config_file = NoConfigFile
    /\ client = NoClient
    /\ auth \in {BrowserAuth_init(s[1], s[2]) : s \in {<<NoneStr, NoneStr>>, <<"s1", "c1">>}}
    /\ env = "dev" /\ backend = "ok" /\ pending = {}
    /\ keyring = [e \in Envs |->
                    IF e = "dev" /\ auth.session_id # NoneStr
                    THEN SessionEntry(auth.session_id, auth.csrf_token) ELSE NoEntry]
    /\ fallback_file = NoFile
    /\ now = 0
    /\ schema_cache = {}
    /\ last = Last("init", FALSE, FALSE, <<>>, NoResult)
    /\ FetchIdle
    /\ FanIdle

\* APIDiagnostic._ensure_auth, when the pass calls it: False for a handler
\* that is not authenticated, else what ensure_valid_token gives
ensure_auth(a, called) ==
    IF called /\ ~auth_is_authenticated(a)
    THEN {Outcome(a, FALSE, FALSE, <<>>)}
    ELSE EnsureOutcomes(a, called)

\* if offset > 0 and offset % 20000 == 0
diag_refreshes_at_head(d) == d.offset > 0 /\ d.offset % REAUTH_EVERY = 0

\* the number of rows of the page that the server sends for the offset
diag_page(d) ==
    IF d.offset >= d.dataset THEN 0 ELSE Min(PAGE_SIZE, d.dataset - d.offset)

\* the loop after the head of a pass, which sends the request
diag_requested(d) ==
    [d EXCEPT !.token_refreshes = IF diag_refreshes_at_head(d) THEN Sat(@ + 1) ELSE @,
              !.pc = "request"]

\* if status == 401: _ensure_auth(); token_refreshes += 1; continue, with a
\* bound of MAX_RETRIES on the passes in a row that do so
diag_on_401_bounded(d) ==
    [d EXCEPT !.token_refreshes = Sat(@ + 1), !.retries = Sat(@ + 1),
              !.pc = IF d.retries + 1 >= MAX_RETRIES THEN "returned" ELSE "loop"]

\* if status == 401: _ensure_auth(); token_refreshes += 1; continue
diag_on_401(d) ==
    [d EXCEPT !.token_refreshes = Sat(@ + 1), !.retries = Sat(@ + 1), !.pc = "loop"]

\* if status != 200: errors.append(...); break when len(errors) > 5, else
\* offset += 500; continue
diag_on_error(d) ==
    [d EXCEPT !.errors = @ + 1, !.retries = 0,
              !.pc = IF d.errors + 1 > DIAG_MAX_ERRORS THEN "returned" ELSE "loop",
              !.offset = IF d.errors + 1 > DIAG_MAX_ERRORS THEN @ ELSE @ + PAGE_SIZE]

\* status 200 with a page of n rows
diag_on_page(d, n) ==
    IF n = 0 THEN [d EXCEPT !.pc = "returned", !.retries = 0]
    ELSE [d EXCEPT !.all_data = @ + n, !.retries = 0,
                   !.offset = IF n < PAGE_SIZE THEN @ ELSE @ + PAGE_SIZE,
                   !.pc = IF n < PAGE_SIZE \/ d.all_data + n >= DIAG_SAFETY_LIMIT
                          THEN "returned" ELSE "loop"]

\* what a pass leaves of the loop when the answer to its request is ans
diag_answered(d, ans) ==
    IF ans = "401" THEN diag_on_401(d)
    ELSE IF ans \in {"500", "timeout"} THEN diag_on_error(d)
    ELSE diag_on_page(d, IF ans = "rows" THEN diag_page(d) ELSE 0)

\* the head of a pass: the refresh at every 20,000 rows, and the request;
\* an exception of ensure_valid_token ends the test
DiagRequest ==
    /\ diag.pc = "loop"
    /\ \E head \in ensure_auth(auth, diag_refreshes_at_head(diag)) :
          /\ auth' = head.auth
          /\ diag' = IF head.raised THEN [diag EXCEPT !.pc = "raised"]
                     ELSE diag_requested(diag)
    /\ UNCHANGED <<environ, config_file, client>>
    /\ UNCHANGED <<now, schema_cache, last>>
    /\ UNCHANGED <<fetchVars, fan, storeVars>>

\* the request is answered: page_count += 1 and the branch of the answer
DiagAnswer ==
    /\ diag.pc = "request"
    /\ \E ans \in DiagAnswers :
       \E o \in ensure_auth(auth, ans = "401") :
          /\ auth' = o.auth
          /\ diag' = IF o.raised
                     THEN [diag EXCEPT !.page_count = Sat(@ + 1), !.pc = "raised"]
                     ELSE diag_answered([diag EXCEPT !.page_count = Sat(@ + 1)], ans)
    /\ UNCHANGED <<environ, config_file, client>>
    /\ UNCHANGED <<now, schema_cache, last>>
    /\ UNCHANGED <<fetchVars, fan, storeVars>>

\* the test reports the rows it holds
DiagReport ==
    /\ diag.pc = "returned"
    /\ diag' = [diag EXCEPT !.pc = "reported"]
    /\ last' = Last("test_data_pagination_full", diag.all_data > 50000, FALSE, <<>>, NoResult)
    /\ UNCHANGED <<environ, config_file, client>>
    /\ UNCHANGED <<auth, now, schema_cache>>
    /\ UNCHANGED <<fetchVars, fan, storeVars>>

DiagNext ==
    \/ DiagRequest
    \/ DiagAnswer
    \/ DiagReport

DiagSpec == DiagInit /\ [][DiagNext]_vars /\ WF_vars(DiagNext)

----------------------------------------------------------------------------
(* Claims about the diagnostic *)

\* C28: the full pagination loop of the diagnostic ends for every sequence
\* of answers, and the passes in a row that are answered 401 at one offset
\* are at most MAX_RETRIES, after which the loop stops and reports the rows
\* it holds so far.
C28_BoundedRetries ==
    /\ <>(diag.pc \in {"reported", "raised"})
    /\ [](diag.retries <= MAX_RETRIES)

----------------------------------------------------------------------------
(* server.py: the module-level client, with the tools that change the stored
   session and the changes that another process (the CLI) makes to the store *)

\* get_auth(): the EnvAuth of the variables when it is configured, else the
\* BrowserAuth of the active environment with the session it loads
get_auth(ev, f, kr, file, b) ==
    IF is_configured(EnvAuth_init(ev.DATARAILS_SESSION_ID, ev.DATARAILS_CSRF_TOKEN,
                                  ev.DATARAILS_JWT_TOKEN))
    THEN EnvAuth_init(ev.DATARAILS_SESSION_ID, ev.DATARAILS_CSRF_TOKEN, ev.DATARAILS_JWT_TOKEN)
    ELSE BrowserAuth_new(load_session(kr, file, get_active_environment(ev.DATARAILS_ENV, f), b))

\* fresh_auth.has_session() and not _client.auth.has_session() raises an
\* AttributeError on an EnvAuth, which has no has_session
has_session_raises(fresh, held) ==
    fresh.cls = "EnvAuth" \/ (has_session(fresh) /\ held.cls = "EnvAuth")

\* get_client making a new client whenever the handler it holds differs from
\* the one that get_auth() gives
get_client_always_fresh(c, held, fresh) ==
    [raised |-> FALSE, auth |-> fresh, made |-> c = NoClient \/ held # fresh]

\* get_client, with the client c that the module holds, the handler held
\* that it wraps and the handler fresh that get_auth() gives
get_client(c, held, fresh) ==
    IF c = NoClient THEN [raised |-> FALSE, auth |-> fresh, made |-> TRUE]
    ELSE IF has_session_raises(fresh, held)
         THEN [raised |-> TRUE, auth |-> held, made |-> FALSE]
         ELSE IF has_session(fresh) /\ ~has_session(held)
              THEN [raised |-> FALSE, auth |-> fresh, made |-> TRUE]
              ELSE [raised |-> FALSE, auth |-> held, made |-> FALSE]

\* the environment that the process works on
ActiveEnv == get_active_environment(environ.DATARAILS_ENV, config_file)

\* the variables of an EnvAuth in the process, or none
ServerEnvirons ==
    {Environ(NoneStr, NoneStr, NoneStr, NoneTok), Environ(NoneStr, "s1", "c1", NoneTok)}

ServerInit ==
    /\ environ \in ServerEnvirons
    /\ config_file \in {ConfigFile(TRUE, "json", TRUE,
                                   Config({"active_environment"}, e, {}, NoneStr)) : e \in Envs}
    /\ client = NoClient
    /\ diag = DiagState("idle", 0)
    /\ auth = BrowserAuth_init(NoneStr, NoneStr)
    /\ env = ActiveEnv
    /\ backend \in {"ok", "unavailable"}
    /\ pending = {}
    /\ keyring \in [Envs -> {NoEntry, SessionEntry("s1", "c1")}]
    /\ fallback_file = NoFile
    /\ now = 0
    /\ schema_cache = {}
    /\ last = Last("init", FALSE, FALSE, <<>>, NoResult)
    /\ FetchIdle
    /\ FanIdle

\* get_client() returned r, or raised
GotClient(r) ==
    /\ client' = IF r.raised THEN client ELSE "DatarailsClient"
    /\ auth' = r.auth
    /\ env' = IF r.made THEN ActiveEnv ELSE env
    /\ last' = Last("get_client", ~r.raised, r.raised, <<>>, NoResult)

GetClient ==
    /\ GotClient(get_client(client, auth,
                            get_auth(environ, config_file, keyring, fallback_file, backend)))
    /\ UNCHANGED <<keyring, fallback_file, backend, pending>>
    /\ UNCHANGED <<environ, config_file, diag>>
    /\ UNCHANGED <<now, schema_cache>>
    /\ UNCHANGED <<fetchVars, fan>>

\* a tool, or another process, changed the store of environment e as r says
StoreChanged(op, e, r, left) ==
    /\ keyring' = r.keyring
    /\ fallback_file' = r.file
    /\ pending' = after_call(pending, e, left)
    /\ last' = Last(op, r.returned, FALSE, r.calls, NoResult)
    /\ UNCHANGED <<env, backend>>
    /\ UNCHANGED <<environ, config_file, diag>>
    /\ UNCHANGED <<auth, now, schema_cache>>
    /\ UNCHANGED <<fetchVars, fan>>

\* the tool set_auth_cookies: set_session_cookies() of auth.py on a new
\* BrowserAuth of the active environment, then reset_client()
SetAuthCookies ==
    /\ \E s \in SessionIds, c \in CsrfTokens :
          StoreChanged("set_auth_cookies", ActiveEnv,
                       save_session(keyring, fallback_file, ActiveEnv, s, c, backend),
                       abandoned_thread(ActiveEnv, SessionEntry(s, c), backend))
    /\ client' = NoClient

\* the tool clear_auth_cookies: clear_auth(), then reset_client()
ClearAuthCookies ==
    /\ StoreChanged("clear_auth_cookies", ActiveEnv,
                    clear_store(keyring, fallback_file, ActiveEnv, backend),
                    abandoned_thread(ActiveEnv, NoEntry, backend))
    /\ client' = NoClient

\* another process saves a session for an environment (datarails-mcp auth)
ExternalSave ==
    /\ \E e \in Envs, s \in SessionIds, c \in CsrfTokens :
          StoreChanged("external_save", e,
                       save_session(keyring, fallback_file, e, s, c, backend),
                       abandoned_thread(e, SessionEntry(s, c), backend))
    /\ UNCHANGED client

\* another process clears the session of an environment (datarails-mcp logout)
ExternalClear ==
    /\ \E e \in Envs :
          StoreChanged("external_clear", e,
                       clear_store(keyring, fallback_file, e, backend),
                       abandoned_thread(e, NoEntry, backend))
    /\ UNCHANGED client

ServerNext ==
    \/ GetClient
    \/ SetAuthCookies
    \/ ClearAuthCookies
    \/ ExternalSave
    \/ ExternalClear

ServerSpec == ServerInit /\ [][ServerNext]_vars

----------------------------------------------------------------------------
(* Claims about the module-level client *)

\* the Session Credential of a handler
Credential(a) == <<a.session_id, a.csrf_token>>

\* C30: after any sequence of set_auth_cookies, clear_auth_cookies and saves
\* or clears made by another process, get_client() does not raise, with an
\* EnvAuth as with a BrowserAuth, and the handler of the client it returns
\* holds the Session Credential that is stored for the active environment
\* (the one that get_auth() gives at that moment).
C30_ClientIsCurrent ==
    [][last'.op = "get_client"
         => /\ ~last'.raised
            /\ client' = "DatarailsClient"
            /\ Credential(auth')
                 = Credential(get_auth(environ, config_file, keyring, fallback_file, backend))]_vars

====
